---- MODULE Spec2Model ----
(***************************************************************************)
(* Model of the privileged (Electron main) process of sync-engine:        *)
(*   electron/src/p2p-main.ts   the Supervisor: libp2p, helia, orbitdb     *)
(*   electron/src/index.ts      the p2p:* IPC handlers (setupP2PIPC)       *)
(*   electron/src/ipc-bridge.ts the orbitdb:* IPC handlers                 *)
(*                                                                         *)
(* The main process is a single JavaScript thread.  An async function runs *)
(* atomically from one await to the next, so every action below is one     *)
(* such run: a request up to its first await, or the continuation after a  *)
(* collaborator's promise has settled.  Collaborators (createLibp2p,       *)
(* createHelia, createOrbitDB, dial, stop, the databases) are opaque: each *)
(* of their promises resolves or rejects nondeterministically.             *)
(***************************************************************************)
EXTENDS Integers, Sequences, FiniteSets, TLC

\* Requests (function calls and IPC invocations) made in one run.
MaxCalls == 4

\* Update events the databases emit in one run.
MaxUpdates == 2

\* Loads of the page of the main window in one run.
MaxLoads == 2

\* JavaScript null / undefined for a module variable holding an instance.
Null == 0

\* The empty string, where the code puts '' in place of a peer id.
EmptyString == -1

VARIABLES
    libp2p,     \* p2p-main.ts:21  the network node, Null or a node id
    helia,      \* p2p-main.ts:22  the block/record store, Null or a store id
    orbitdb,    \* p2p-main.ts:23  the database engine, Null or an engine id
    nodes,      \* every network node createLibp2p has produced, by id
    stores,     \* every store createHelia has produced, by id
    engines,    \* every engine createOrbitDB has produced, by id
    databases,  \* ipc-bridge.ts:12  the open databases, by address
    instances,  \* the database each engine holds open at an address, with the
                \* update listeners registered on it (ipc-bridge.ts:47)
    closed,     \* history: the addresses orbitdb:close has closed, not opened since
    invoked,    \* the calls the handlers have made on the databases, in order
    contents,   \* the records each database holds, by address, oldest first
    emitted,    \* the number of update events the databases have emitted
    channel,    \* the 'orbitdb:update' messages sent to the renderer, not yet received
    subscribers,\* the renderer's update listeners, in order of registration
    localStorage,\* data-model.js:131-163  the item 'webauthn-credential-current-user'
    app,        \* app-init.js:4-7, stores.js  the renderer's module state and stores
    descriptor, \* app-init.js:78  the identity last sent with p2p:createOrbitDB
    built,      \* history: the identities createOrbitDBIdentity has returned
    shell,      \* index.ts:41-50, 150-158  the main window, the 1000 ms timer and
                \* whether setupOrbitDBIPC has registered the orbitdb:* handlers
    attentionLog,\* data-model.js:67  the events of the attention log, oldest first
    calls,      \* the requests in flight, in order of arrival
    reply,      \* the request the last step completed, with its result
    made,       \* the number of requests made so far
    loads       \* the number of times the page has been loaded so far

vars == <<libp2p, helia, orbitdb, nodes, stores, engines, databases, instances, closed,
         invoked, contents, emitted, channel, subscribers,
         localStorage, app, descriptor, built, shell, attentionLog, calls, reply,
         made, loads>>

----------------------------------------------------------------------------
\* Values

\* No error.
NoError == [code |-> "", notFound |-> FALSE, message |-> ""]

\* Errors a collaborator can reject with: the level stores report a missing
\* key by code (abstract-level) or by the notFound flag (levelup); anything
\* else is a genuine fault.
Errors ==
    { [code |-> "LEVEL_NOT_FOUND", notFound |-> FALSE, message |-> "NotFound"],
      [code |-> "", notFound |-> TRUE, message |-> "NotFound"],
      [code |-> "EIO", notFound |-> FALSE, message |-> "EIO"] }

\* `new Error(message)`
Error(message) == [code |-> "", notFound |-> FALSE, message |-> message]

\* What identity.id throws on when the renderer sends no identity.
TypeError == [code |-> "", notFound |-> FALSE, message |-> "TypeError"]

\* JavaScript values by their kind: an "ArrayBuffer", a "Uint8Array" and an
\* "Array" of bytes, a "string" of characters (of a base64 string: the sextets
\* 0..63 and Pad), a "number" (data is <<n>>); and null.
Js(kind, data) == [kind |-> kind, data |-> data]
JsNull == [kind |-> "null"]

\* The identity descriptors a renderer can send; JsNull is a missing one.
Identities ==
    {JsNull,
     [id |-> "did:key:a", publicKey |-> Js("Array", <<4, 1>>), type |-> "webauthn"],
     [id |-> "did:key:b", publicKey |-> Js("Array", <<4, 2>>), type |-> "webauthn"]}

\* Remote peers a dial can name, and a string that is no multiaddr.
Peers == {"peerA"}
BadAddress == "garbage"
DialInputs == Peers \cup {BadAddress}

\* libp2p.peerId.toString() of node n.
PeerIdOf(n) == n

\* libp2p.getMultiaddrs().map(ma => ma.toString()) of node n.
MultiaddrsOf(n) == <<n>>

\* path.join(app.getPath('userData'), 'orbitdb')
StorageDir == "userData/orbitdb"

----------------------------------------------------------------------------
\* Results of the Supervisor's functions

\* { success: true, peerId, multiaddrs, storageDir }
InitSuccess(peerId, multiaddrs) ==
    [success |-> TRUE, peerId |-> peerId, multiaddrs |-> multiaddrs,
     storageDir |-> StorageDir]

\* { success: false, error: error.message }
Failure(message) == [success |-> FALSE, error |-> message]

\* { success: true }
Success == [success |-> TRUE]

\* How an async function ends: it returns a value or throws an error.
Returned(value) == [threw |-> FALSE, value |-> value]
Threw(error) == [threw |-> TRUE, value |-> error]

\* Mutant of IsNotFound: only the error code is looked at.
IsNotFoundByCodeOnly(error) == error.code = "LEVEL_NOT_FOUND"

\* error.code === 'LEVEL_NOT_FOUND' || error.notFound
IsNotFound(error) == error.code = "LEVEL_NOT_FOUND" \/ error.notFound

\* The catch block of initializeP2P; node is the value of libp2p when it runs.
InitCatch(error, node) ==
    IF IsNotFound(error)
    THEN Returned(InitSuccess(IF node # Null THEN PeerIdOf(node) ELSE EmptyString,
                              IF node # Null THEN MultiaddrsOf(node) ELSE <<>>))
    ELSE Returned(Failure(error.message))

\* The catch block of createOrbitDBWithIdentity.
BindCatch(error) ==
    IF IsNotFound(error) THEN Returned(Success) ELSE Returned(Failure(error.message))

\* Mutant of DialCatch: the failure is swallowed.
DialCatchSwallows(error) == Returned(Success)

\* The catch block of dialPeer.
DialCatch(error) == Returned(Failure(error.message))

\* The try/catch every async p2p:* handler of setupP2PIPC wraps its call in.
P2PHandle(completion) ==
    IF completion.threw THEN Returned(Failure(completion.value.message))
    ELSE completion

----------------------------------------------------------------------------
\* Requests

\* The operations that write the Supervisor's state.
Mutating == {"initialize", "createOrbitDB", "dialPeer", "shutdown"}

\* A request.  via: "ipc" for a p2p:* handler invoked by the renderer, "bridge"
\* for an orbitdb:* handler, "main" for a
\* call made by the main process itself (the app-ready initializeP2P, the
\* before-quit shutdownP2P).  pc: where it is suspended, or where it ended
\* once done.  loc: the instance its pending collaborator call was made with.
\* stopped: the members it has called stop() on.  caught: the error its catch
\* block handled.  met: the mutating operations that were in flight while it
\* was.  from: the request of the page whose ipcRenderer.invoke this handler
\* run answers, 0 where the request is not one the model follows in the
\* renderer.  invoke: the ipcRenderer.invoke a request of the page awaits.
\* at: the entries of `databases` the iterator of closeAllDatabases has passed.
\* read: what the db.all() the request awaits has read, <<>> before it has.

\* No ipcRenderer.invoke is pending.
NoInvoke ==
    [op |-> "none", arg |-> <<>>, state |-> "none", order |-> 0,
     result |-> Returned(Null)]

\* A request that has met no other.
Alone(op, via, arg) ==
    [op |-> op, via |-> via, arg |-> arg, pc |-> "start", loc |-> Null,
     stopped |-> <<>>, caught |-> NoError, met |-> {},
     done |-> FALSE, out |-> Returned(Null),
     from |-> 0, invoke |-> NoInvoke, at |-> 0, read |-> <<>>]

NewCall(op, via, arg) ==
    [Alone(op, via, arg) EXCEPT
        !.met = {calls[i].op : i \in DOMAIN calls} \cap Mutating]

NoReply == Alone("none", "none", Null)

\* Request c suspended at an await, the collaborator called with instance loc.
Await(c, pc, loc) == [c EXCEPT !.pc = pc, !.loc = loc]

\* The completion the caller of request c observes.
Delivered(c, completion) ==
    IF c.via = "ipc" THEN P2PHandle(completion) ELSE completion

\* Request c ends with the given completion.
Finish(c, completion) ==
    [c EXCEPT !.done = TRUE, !.out = Delivered(c, completion)]

\* Request c ends in its catch block.
Caught(c, error, completion) ==
    [Finish(c, completion) EXCEPT !.caught = error]

\* The requests seq without request i; the handler runs that answered it
\* answer to nobody.
Remove(seq, i) ==
    [j \in 1..(Len(seq) - 1) |->
        LET c == IF j < i THEN seq[j] ELSE seq[j + 1] IN
        [c EXCEPT !.from = IF @ = i THEN 0 ELSE IF @ > i THEN @ - 1 ELSE @]]

Highest(numbers) ==
    IF numbers = {} THEN 0 ELSE CHOOSE n \in numbers : \A m \in numbers : m <= n

\* The place of the last of the invocations of cs in the given state: the
\* messages between the page and the main process keep their order.
LastOrder(cs, state) ==
    Highest({cs[i].invoke.order : i \in {j \in DOMAIN cs : cs[j].invoke.state = state}})

\* The request of cs whose invocation is the first in the given state, 0 where
\* there is none.
Oldest(cs, state) ==
    LET waiting == {j \in DOMAIN cs : cs[j].invoke.state = state} IN
    IF waiting = {} THEN 0
    ELSE CHOOSE i \in waiting : \A j \in waiting : cs[i].invoke.order <= cs[j].invoke.order

\* preload.ts:44-63  ipcRenderer.invoke(channel, ...args) by a request of the
\* page: the message is sent after the ones sent before it.
RendererInvoke(op, arg) ==
    [op |-> op, arg |-> arg, state |-> "sent",
     order |-> LastOrder(calls, "sent") + 1, result |-> Returned(Null)]

\* The invocation of request s of cs is answered with what its handler ended
\* with; the reply is sent after the replies sent before it.
AnswerTo(cs, s, completion) ==
    [cs EXCEPT ![s].invoke =
        [@ EXCEPT !.state = "settled", !.order = LastOrder(cs, "settled") + 1,
                  !.result = completion]]

\* The request of the page that handler run c answers: the one whose
\* invocation is the next to be handled, where it is of c's channel with c's
\* arguments.
Sender(c) ==
    LET s == Oldest(calls, "sent") IN
    IF /\ c.via \in {"ipc", "bridge"}
       /\ s # 0
       /\ calls[s].invoke.op = c.op
       /\ calls[s].invoke.arg = c.arg
    THEN s ELSE 0

\* Mutant of Arrive: a request is taken up only when none is in flight.
ArriveWhenIdle(c) ==
    /\ calls = <<>>
    /\ made < MaxCalls
    /\ made' = made + 1
    /\ IF c.done
       THEN calls' = calls /\ reply' = c
       ELSE calls' = Append(calls, c) /\ reply' = NoReply

\* A request arrives and runs to its first await or to its end; the requests
\* of the p2p:* and orbitdb:* channels come from the page of the main window.
Arrive(c) ==
    /\ c.via \in {"ipc", "bridge"} => shell.window
    /\ LET s == Sender(c)
           others == [i \in DOMAIN calls |->
                        [calls[i] EXCEPT !.met = @ \cup ({c.op} \cap Mutating)]]
           run == [c EXCEPT !.from = s] IN
        /\ s = 0 => made < MaxCalls
        /\ made' = IF s = 0 THEN made + 1 ELSE made
        /\ IF c.done
           THEN /\ calls' = IF s = 0 THEN others ELSE AnswerTo(others, s, c.out)
                /\ reply' = run
           ELSE /\ calls' = Append(IF s = 0 THEN others
                                   ELSE [others EXCEPT ![s].invoke.state = "taken"],
                                   run)
                /\ reply' = NoReply

\* The continuation of request i, one of the requests cs, runs to its next
\* await or to its end.
ContinueIn(cs, i, c) ==
    /\ made' = made
    /\ IF c.done
       THEN /\ calls' = Remove(IF c.from = 0 THEN cs ELSE AnswerTo(cs, c.from, c.out), i)
            /\ reply' = c
       ELSE calls' = [cs EXCEPT ![i] = c] /\ reply' = NoReply

\* The continuation of request i runs to its next await or to its end.
Continue(i, c) == ContinueIn(calls, i, c)

Awaiting(pc) == {i \in DOMAIN calls : calls[i].pc = pc}

\* Request c of the page suspended at `await ipcRenderer.invoke(...)`.
AwaitInvoke(c, pc, loc, op, arg) ==
    [Await(c, pc, loc) EXCEPT !.invoke = RendererInvoke(op, arg)]

\* The requests `op` of the page whose invocation, made at pc, has been
\* answered, the answer being the next one the page receives.
Replying(op, pc) ==
    {i \in DOMAIN calls : /\ calls[i].op = op /\ calls[i].pc = pc
                          /\ i = Oldest(calls, "settled")}

\* Request c of the page with the answer to its invocation taken.
Resumed(c) == [c EXCEPT !.invoke = NoInvoke]

----------------------------------------------------------------------------
\* initializeP2P (p2p-main.ts:38-129), called by the app-ready hook and by
\* the p2p:initialize handler

\* The call up to `await createLibp2p(...)`.
InitCall ==
    /\ Arrive(Await(NewCall("initialize", "ipc", Null), "awaitLibp2p", Null))
    /\ UNCHANGED <<libp2p, helia, orbitdb, nodes, stores, engines, databases, closed, emitted, channel, subscribers, invoked, contents, localStorage, app, descriptor, built, shell, attentionLog, instances, loads>>

\* createLibp2p resolves: libp2p is assigned, peerId and multiaddrs are read,
\* the level stores are constructed and createHelia is called with libp2p.
InitLibp2pResolve(i) ==
    /\ i \in Awaiting("awaitLibp2p")
    /\ LET n == Len(nodes) + 1 IN
        /\ nodes' = Append(nodes, [running |-> TRUE, conns |-> {}])
        /\ libp2p' = n
        /\ Continue(i, Await(calls[i], "awaitHelia", n))
    /\ UNCHANGED <<helia, orbitdb, stores, engines, databases, closed, emitted, channel, subscribers, invoked, contents, localStorage, app, descriptor, built, shell, attentionLog, instances, loads>>

\* createLibp2p rejects: the catch block runs.
InitLibp2pReject(i, error) ==
    /\ i \in Awaiting("awaitLibp2p")
    /\ Continue(i, Caught(calls[i], error, InitCatch(error, libp2p)))
    /\ UNCHANGED <<libp2p, helia, orbitdb, nodes, stores, engines, databases, closed, emitted, channel, subscribers, invoked, contents, localStorage, app, descriptor, built, shell, attentionLog, instances, loads>>

\* createHelia resolves: helia is assigned and the result is built from the
\* peerId and multiaddrs read after createLibp2p.
InitHeliaResolve(i) ==
    /\ i \in Awaiting("awaitHelia")
    /\ LET s == Len(stores) + 1
           n == calls[i].loc IN
        /\ stores' = Append(stores, [running |-> TRUE])
        /\ helia' = s
        /\ Continue(i, Finish(calls[i],
                              Returned(InitSuccess(PeerIdOf(n), MultiaddrsOf(n)))))
    /\ UNCHANGED <<libp2p, orbitdb, nodes, engines, databases, closed, emitted, channel, subscribers, invoked, contents, localStorage, app, descriptor, built, shell, attentionLog, instances, loads>>

\* createHelia (or opening the level stores under it) rejects.
InitHeliaReject(i, error) ==
    /\ i \in Awaiting("awaitHelia")
    /\ Continue(i, Caught(calls[i], error, InitCatch(error, libp2p)))
    /\ UNCHANGED <<libp2p, helia, orbitdb, nodes, stores, engines, databases, closed, emitted, channel, subscribers, invoked, contents, localStorage, app, descriptor, built, shell, attentionLog, instances, loads>>

----------------------------------------------------------------------------
\* createOrbitDBWithIdentity (p2p-main.ts:135-170), behind p2p:createOrbitDB

\* Mutant of BindStart: the `if (!helia)` guard is missing.
BindStartUnguarded(c) ==
    IF orbitdb # Null
    THEN Finish(c, Returned(Success))
    ELSE IF c.arg = JsNull
    THEN Caught(c, TypeError, BindCatch(TypeError))
    ELSE Await(c, "awaitOrbitDB", helia)

\* The guards, and the call up to `await createOrbitDB(...)`.
BindStart(c) ==
    IF helia = Null
    THEN Finish(c, Returned(Failure("Helia not initialized. Call initializeP2P first.")))
    ELSE IF orbitdb # Null
    THEN Finish(c, Returned(Success))
    ELSE IF c.arg = JsNull
    THEN Caught(c, TypeError, BindCatch(TypeError))
    ELSE Await(c, "awaitOrbitDB", helia)

BindCall(identity) ==
    /\ Arrive(BindStart(NewCall("createOrbitDB", "ipc", identity)))
    /\ UNCHANGED <<libp2p, helia, orbitdb, nodes, stores, engines, databases, closed, emitted, channel, subscribers, invoked, contents, localStorage, app, descriptor, built, shell, attentionLog, instances, loads>>

\* createOrbitDB resolves: orbitdb is assigned.
BindResolve(i) ==
    /\ i \in Awaiting("awaitOrbitDB")
    /\ LET e == Len(engines) + 1 IN
        /\ engines' = Append(engines, [running |-> TRUE])
        /\ orbitdb' = e
        /\ Continue(i, Finish(calls[i], Returned(Success)))
    /\ UNCHANGED <<libp2p, helia, nodes, stores, databases, closed, emitted, channel, subscribers, invoked, contents, localStorage, app, descriptor, built, shell, attentionLog, instances, loads>>

\* createOrbitDB rejects: the catch block runs, orbitdb is left as it is.
BindReject(i, error) ==
    /\ i \in Awaiting("awaitOrbitDB")
    /\ Continue(i, Caught(calls[i], error, BindCatch(error)))
    /\ UNCHANGED <<libp2p, helia, orbitdb, nodes, stores, engines, databases, closed, emitted, channel, subscribers, invoked, contents, localStorage, app, descriptor, built, shell, attentionLog, instances, loads>>

----------------------------------------------------------------------------
\* dialPeer (p2p-main.ts:203-224), behind p2p:dialPeer

\* What libp2p.dial rejects with.
DialErrors ==
    { [code |-> "", notFound |-> FALSE, message |-> "timeout"],
      [code |-> "", notFound |-> FALSE, message |-> "identity-mismatch"] }

\* What multiaddr() throws on a string that is no multiaddr.
ParseError == [code |-> "", notFound |-> FALSE, message |-> "invalid multiaddr"]

\* The guard, multiaddr(multiaddrString), and the call up to `await libp2p.dial(ma)`.
DialStart(c) ==
    IF libp2p = Null
    THEN Finish(c, Returned(Failure("libp2p not initialized")))
    ELSE IF c.arg = BadAddress
    THEN Caught(c, ParseError, DialCatch(ParseError))
    ELSE Await(c, "awaitDial", libp2p)

DialCall(address) ==
    /\ Arrive(DialStart(NewCall("dialPeer", "ipc", address)))
    /\ UNCHANGED <<libp2p, helia, orbitdb, nodes, stores, engines, databases, closed, emitted, channel, subscribers, invoked, contents, localStorage, app, descriptor, built, shell, attentionLog, instances, loads>>

\* libp2p.dial resolves: the node has a connection to the peer.
DialResolve(i) ==
    /\ i \in Awaiting("awaitDial")
    /\ nodes' = [nodes EXCEPT ![calls[i].loc].conns = @ \cup {calls[i].arg}]
    /\ Continue(i, Finish(calls[i], Returned(Success)))
    /\ UNCHANGED <<libp2p, helia, orbitdb, stores, engines, databases, closed, emitted, channel, subscribers, invoked, contents, localStorage, app, descriptor, built, shell, attentionLog, instances, loads>>

\* libp2p.dial rejects: the catch block runs.
DialReject(i, error) ==
    /\ i \in Awaiting("awaitDial")
    /\ Continue(i, Caught(calls[i], error, DialCatch(error)))
    /\ UNCHANGED <<libp2p, helia, orbitdb, nodes, stores, engines, databases, closed, emitted, channel, subscribers, invoked, contents, localStorage, app, descriptor, built, shell, attentionLog, instances, loads>>

----------------------------------------------------------------------------
\* getPeerId, getMultiaddrs, getConnections (p2p-main.ts:175-197) behind the
\* synchronous handlers p2p:getPeerId, p2p:getMultiaddrs, p2p:getConnections

getPeerId == IF libp2p # Null THEN PeerIdOf(libp2p) ELSE Null

\* Mutant of getMultiaddrs: the null test is missing.
getMultiaddrsUnguarded == MultiaddrsOf(libp2p)

getMultiaddrs == IF libp2p # Null THEN MultiaddrsOf(libp2p) ELSE <<>>

getConnections ==
    IF libp2p = Null THEN {}
    ELSE {[remotePeer |-> p, status |-> "open"] : p \in nodes[libp2p].conns}

Getter(op) ==
    CASE op = "getPeerId" -> getPeerId
      [] op = "getMultiaddrs" -> getMultiaddrs
      [] op = "getConnections" -> getConnections

Getters == {"getPeerId", "getMultiaddrs", "getConnections"}

\* The handlers return the getter's value as it is, with no try/catch.
GetCall(op) ==
    /\ Arrive([NewCall(op, "ipc", Null) EXCEPT !.done = TRUE,
                                               !.out = Returned(Getter(op))])
    /\ UNCHANGED <<libp2p, helia, orbitdb, nodes, stores, engines, databases, closed, emitted, channel, subscribers, invoked, contents, localStorage, app, descriptor, built, shell, attentionLog, instances, loads>>

----------------------------------------------------------------------------
\* shutdownP2P (p2p-main.ts:236-262), called by the before-quit hook

\* shutdownP2P returns: a call the main process makes on its own has ended;
\* the before-quit handler, which awaits it, goes on with its next turn.
ShutdownReturn(c) ==
    IF c.op = "quit" THEN Await(c, "awaitShutdownP2P", Null)
    ELSE Finish(c, Returned(Null))

\* Mutant of ShutdownFrom: the storage is stopped before the engine.
ShutdownFromStoreFirst(c, from) ==
    IF from = "orbitdb" /\ helia # Null
    THEN [Await(c, "awaitHeliaStop", helia) EXCEPT
              !.stopped = Append(@, [member |-> "helia", id |-> helia])]
    ELSE IF from \in {"orbitdb", "libp2p"} /\ orbitdb # Null
    THEN [Await(c, "awaitOrbitDBStop", orbitdb) EXCEPT
              !.stopped = Append(@, [member |-> "orbitdb", id |-> orbitdb])]
    ELSE IF libp2p # Null
    THEN [Await(c, "awaitLibp2pStop", libp2p) EXCEPT
              !.stopped = Append(@, [member |-> "libp2p", id |-> libp2p])]
    ELSE ShutdownReturn(c)

\* The function from one of its three `if` statements to the next await or to
\* its end; c is the request, from the `if` statement that runs next.
ShutdownFrom(c, from) ==
    IF from = "orbitdb" /\ orbitdb # Null
    THEN [Await(c, "awaitOrbitDBStop", orbitdb) EXCEPT
              !.stopped = Append(@, [member |-> "orbitdb", id |-> orbitdb])]
    ELSE IF from \in {"orbitdb", "helia"} /\ helia # Null
    THEN [Await(c, "awaitHeliaStop", helia) EXCEPT
              !.stopped = Append(@, [member |-> "helia", id |-> helia])]
    ELSE IF libp2p # Null
    THEN [Await(c, "awaitLibp2pStop", libp2p) EXCEPT
              !.stopped = Append(@, [member |-> "libp2p", id |-> libp2p])]
    ELSE ShutdownReturn(c)

ShutdownCall ==
    /\ Arrive(ShutdownFrom(NewCall("shutdown", "main", Null), "orbitdb"))
    /\ UNCHANGED <<libp2p, helia, orbitdb, nodes, stores, engines, databases, closed, emitted, channel, subscribers, invoked, contents, localStorage, app, descriptor, built, shell, attentionLog, instances, loads>>

\* orbitdb.stop() resolves: orbitdb = null, then the helia statement.
ShutdownOrbitDBStopped(i) ==
    /\ i \in Awaiting("awaitOrbitDBStop")
    /\ engines' = [engines EXCEPT ![calls[i].loc].running = FALSE]
    /\ orbitdb' = Null
    /\ Continue(i, ShutdownFrom(calls[i], "helia"))
    /\ UNCHANGED <<libp2p, helia, nodes, stores, databases, closed, emitted, channel, subscribers, invoked, contents, localStorage, app, descriptor, built, shell, attentionLog, instances, loads>>

\* helia.stop() resolves: helia = null, then the libp2p statement.
ShutdownHeliaStopped(i) ==
    /\ i \in Awaiting("awaitHeliaStop")
    /\ stores' = [stores EXCEPT ![calls[i].loc].running = FALSE]
    /\ helia' = Null
    /\ Continue(i, ShutdownFrom(calls[i], "libp2p"))
    /\ UNCHANGED <<libp2p, orbitdb, nodes, engines, databases, closed, emitted, channel, subscribers, invoked, contents, localStorage, app, descriptor, built, shell, attentionLog, instances, loads>>

\* libp2p.stop() resolves: libp2p = null, the function returns.
ShutdownLibp2pStopped(i) ==
    /\ i \in Awaiting("awaitLibp2pStop")
    /\ nodes' = [nodes EXCEPT ![calls[i].loc].running = FALSE]
    /\ libp2p' = Null
    /\ Continue(i, ShutdownReturn(calls[i]))
    /\ UNCHANGED <<helia, orbitdb, stores, engines, databases, closed, emitted, channel, subscribers, invoked, contents, localStorage, app, descriptor, built, shell, attentionLog, instances, loads>>

\* A stop() rejects: the one catch block logs it and the function returns.
ShutdownStopFailed(i, error) ==
    /\ i \in Awaiting("awaitOrbitDBStop") \cup Awaiting("awaitHeliaStop")
             \cup Awaiting("awaitLibp2pStop")
    /\ Continue(i, [ShutdownReturn(calls[i]) EXCEPT !.caught = error])
    /\ UNCHANGED <<libp2p, helia, orbitdb, nodes, stores, engines, databases, closed, emitted, channel, subscribers, invoked, contents, localStorage, app, descriptor, built, shell, attentionLog, instances, loads>>

----------------------------------------------------------------------------
\* The orbitdb:* handlers of setupOrbitDBIPC (ipc-bridge.ts:18-306)

\* The database name the renderer opens, and the types it can ask for.
Name == "intentions"
DbTypes == {"documents", "keyvalue"}

\* `options` of orbitdb:open, by the type it asks for; NoOptions is a null.
NoOptions == "null"
OpenInputs == DbTypes \cup {NoOptions}

\* db.address: the engine derives it from the manifest (name and type).
AddressOf(name, type) == <<"/orbitdb", name, type>>
Addresses == {AddressOf(Name, t) : t \in DbTypes}

\* Documents of a request: one with an _id, one without, and no document at
\* all (undefined).
Doc(id) == [_id |-> id, title |-> "t"]
NoId == [title |-> "t"]
NoDoc == [undefined |-> TRUE]
DocInputs == {Doc("k1"), NoId, NoDoc}

\* The hash db.put and db.del resolve with.
HashOf(entry) == <<"hash", entry>>

\* What a documents database keeps of a document and hands out for it:
\* { hash, key: doc._id, value: doc }
Record(doc) == [hash |-> HashOf(doc), key |-> doc._id, value |-> doc]

\* What the documents database holds when the process starts: nothing, or a
\* document of an earlier run.
Stored == {<<>>, <<Record(Doc("k2"))>>}

\* The records of a database without the one of `key`.
Without(records, key) ==
    LET Other(record) == record.key # key IN SelectSeq(records, Other)

\* db.put(doc): the document takes the place of the one with its _id and is the
\* newest.
PutDoc(records, doc) == Append(Without(records, doc._id), Record(doc))

\* db.del(key)
DelDoc(records, key) == Without(records, key)

\* db.get(key): the record of the key, undefined where there is none.
GetDoc(records, key) ==
    IF \E k \in DOMAIN records : records[k].key = key
    THEN records[CHOOSE k \in DOMAIN records : records[k].key = key]
    ELSE NoDoc

\* filterFn of orbitdb:query: none, a predicate, a string that is no
\* JavaScript expression.
NoFilter == ""
KeyIsK1 == "doc => doc.key === 'k1'"
BadFilter == "("
Filters == {NoFilter, KeyIsK1, BadFilter}

\* A filterFn that is an expression with an effect: eval runs it in the scope
\* of the handler, where `databases` is the map of open handles.
ClearsHandles == "(databases.clear(), doc => true)"
Predicates == Filters \cup {ClearsHandles}

\* eval(`(${filterFn})`) (ipc-bridge.ts:141) on the map of open handles; there
\* is no eval without a filterFn, and BadFilter throws before it has run.
Evaluate(map, filterFn) == IF filterFn = ClearsHandles THEN <<>> ELSE map

\* What eval throws on BadFilter.
SyntaxError == [code |-> "", notFound |-> FALSE, message |-> "SyntaxError"]

\* What a database rejects a call with.
DatabaseErrors == {[code |-> "", notFound |-> FALSE, message |-> "Database is closed"]}

\* `Database not found: ${address}`
NotFoundMessage(address) == <<"Database not found: ", address>>

\* The message of the type guard of query, add, put, del and get.
DocumentsOnlyMessage(op) ==
    CASE op = "query" -> "Query only works with documents type databases"
      [] op = "add" -> "Add only works with documents type databases"
      [] op = "put" -> "Put only works with documents type databases"
      [] op = "del" -> "Del only works with documents type databases"
      [] op = "get" -> "Get only works with documents type databases"

\* The catch block of every orbitdb:* handler:
\* { success: false, error: error.message }
BridgeCatch(error) == Returned(Failure(error.message))

\* The engine holds no database open at an address.
NoInstance == [engine |-> Null, listeners |-> 0, tried |-> FALSE]

\* In place of its address: a database that has closed.
Gone == <<>>

\* The engine's databases once the one close() was called on has closed,
\* unless it had closed before.
Shut(open, address) ==
    IF address = Gone THEN open ELSE [open EXCEPT ![address] = NoInstance]

\* The requests cs once the database at `address` has closed: the close()
\* calls of orbitdb:close and of closeAllDatabases pending on it are calls on
\* a closed database from now on.
Stale(cs, address) ==
    [j \in DOMAIN cs |->
        IF cs[j].pc \in {"awaitClose", "awaitDbClose"} /\ cs[j].loc = address
        THEN [cs[j] EXCEPT !.loc = Gone] ELSE cs[j]]

\* The requests cs once databases.delete(address) has run on `map`: a Map
\* iterator that is past the entry has one entry less behind it.
Skipped(cs, map, address) ==
    LET place == IF \E k \in DOMAIN map : map[k].address = address
                 THEN CHOOSE k \in DOMAIN map : map[k].address = address ELSE 0 IN
    [j \in DOMAIN cs |->
        [cs[j] EXCEPT !.at = IF place # 0 /\ @ >= place THEN @ - 1 ELSE @]]

\* The requests cs once databases.clear() has run: a Map iterator goes on
\* with the entries set from then on.
Rewound(cs) == [j \in DOMAIN cs |-> [cs[j] EXCEPT !.at = 0]]

\* databases.has(address), databases.get(address)
Has(address) == \E k \in DOMAIN databases : databases[k].address = address
Get(address) == databases[CHOOSE k \in DOMAIN databases : databases[k].address = address]

\* Mutant of MapSet: every set adds an entry.
MapSetAppends(map, db) == Append(map, db)

\* databases.set(db.address, db): a Map keeps the place of a key it has.
MapSet(map, db) ==
    IF \E k \in DOMAIN map : map[k].address = db.address
    THEN [k \in DOMAIN map |-> IF map[k].address = db.address THEN db ELSE map[k]]
    ELSE Append(map, db)

\* Mutant of MapDelete: the handle is left in the map.
MapDeleteNothing(map, address) == map

\* databases.delete(address)
MapDelete(map, address) ==
    LET Other(db) == db.address # address IN SelectSeq(map, Other)

\* { address, name: db.name, type: db.type }
Describe(db) == [address |-> db.address, name |-> db.name, type |-> db.type]

\* A request of an orbitdb:* handler.
BridgeCall(op, arg) == NewCall(op, "bridge", arg)

\* What ipcRenderer.invoke rejects with on a channel that has no handler.
NoHandlerError(name) ==
    Error("Error invoking remote method '" \o name
          \o "': Error: No handler registered for '" \o name \o "'")

\* ipcMain.handle(channel, handler): request c runs in the handler
\* setupOrbitDBIPC has registered, up to `started`; before setupOrbitDBIPC has
\* run the channel has no handler and the invoke is rejected.
Handle(c, started) ==
    IF shell.handlers THEN started
    ELSE Finish(c, Threw(NoHandlerError("orbitdb:" \o c.op)))

\* orbitdb:open (ipc-bridge.ts:24-70) up to `await orbitdb.open(...)`:
\* options.type throws on null options.
OpenStart(c) ==
    IF orbitdb = Null
    THEN Finish(c, Returned(Failure("OrbitDB not initialized. Call createOrbitDB with identity first.")))
    ELSE IF c.arg = NoOptions
    THEN Caught(c, TypeError, BridgeCatch(TypeError))
    ELSE Await(c, "awaitOpen", orbitdb)

OpenCall(options) ==
    /\ Arrive(Handle(BridgeCall("open", options), OpenStart(BridgeCall("open", options))))
    /\ UNCHANGED <<libp2p, helia, orbitdb, nodes, stores, engines, databases, closed, emitted, channel, subscribers, invoked, contents, localStorage, app, descriptor, built, shell, attentionLog, instances, loads>>

\* orbitdb.open resolves with the database, which the engine keeps one of per
\* address until it is closed, whether the map has a handle of it or not: one
\* more update listener is registered on it and the handle is stored, at the
\* place databases.set keeps for an address the map has.  tried:
\* closeAllDatabases has called close() on the database, which the engine
\* hands out again while it is open.
OpenResolve(i) ==
    /\ i \in Awaiting("awaitOpen")
    /\ LET c == calls[i]
           address == AddressOf(Name, c.arg)
           again == instances[address].engine = c.loc
           db == [address |-> address, name |-> Name, type |-> c.arg,
                  tried |-> again /\ instances[address].tried] IN
        /\ instances' = [instances EXCEPT ![address] =
                             [engine |-> c.loc,
                              listeners |-> IF again THEN @.listeners + 1 ELSE 1,
                              tried |-> again /\ @.tried]]
        /\ databases' = MapSet(databases, db)
        /\ closed' = closed \ {address}
        /\ Continue(i, Finish(c, Returned([success |-> TRUE, address |-> address,
                                           name |-> db.name, type |-> db.type])))
    /\ UNCHANGED <<libp2p, helia, orbitdb, nodes, stores, engines, emitted, channel, subscribers, invoked, contents, localStorage, app, descriptor, built, shell, attentionLog, loads>>

OpenReject(i, error) ==
    /\ i \in Awaiting("awaitOpen")
    /\ Continue(i, Caught(calls[i], error, BridgeCatch(error)))
    /\ UNCHANGED <<libp2p, helia, orbitdb, nodes, stores, engines, databases, closed, emitted, channel, subscribers, invoked, contents, localStorage, app, descriptor, built, shell, attentionLog, instances, loads>>

\* Mutant of CloseStart: the handle is not looked up before it is closed.
CloseStartUnguarded(c) == Await(c, "awaitClose", c.arg)

\* orbitdb:close (ipc-bridge.ts:76-95) up to `await db.close()`.  loc: the
\* address while the database close() was called on is open, Gone once it
\* has closed.
CloseStart(c) ==
    IF ~Has(c.arg)
    THEN Finish(c, Returned(Failure(NotFoundMessage(c.arg))))
    ELSE Await(c, "awaitClose", IF instances[c.arg] = NoInstance THEN Gone ELSE c.arg)

CloseCall(address) ==
    /\ Arrive(Handle(BridgeCall("close", address), CloseStart(BridgeCall("close", address))))
    /\ UNCHANGED <<libp2p, helia, orbitdb, nodes, stores, engines, databases, closed, emitted, channel, subscribers, invoked, contents, localStorage, app, descriptor, built, shell, attentionLog, instances, loads>>

\* db.close() resolves: the database has closed, if another close() had not
\* closed it before, and the handle the map has for the address is deleted.
CloseResolve(i) ==
    /\ i \in Awaiting("awaitClose")
    /\ instances' = Shut(instances, calls[i].loc)
    /\ databases' = MapDelete(databases, calls[i].arg)
    /\ closed' = closed \cup {calls[i].arg}
    /\ ContinueIn(Skipped(Stale(calls, calls[i].loc), databases, calls[i].arg), i,
                  Finish(calls[i], Returned(Success)))
    /\ UNCHANGED <<libp2p, helia, orbitdb, nodes, stores, engines, emitted, channel, subscribers, invoked, contents, localStorage, app, descriptor, built, shell, attentionLog, loads>>

CloseReject(i, error) ==
    /\ i \in Awaiting("awaitClose")
    /\ Continue(i, Caught(calls[i], error, BridgeCatch(error)))
    /\ UNCHANGED <<libp2p, helia, orbitdb, nodes, stores, engines, databases, closed, emitted, channel, subscribers, invoked, contents, localStorage, app, descriptor, built, shell, attentionLog, instances, loads>>

\* orbitdb:getDatabases (ipc-bridge.ts:100-115)
GetDatabasesCall ==
    /\ Arrive(Handle(BridgeCall("getDatabases", Null),
                     Finish(BridgeCall("getDatabases", Null),
                            Returned([success |-> TRUE,
                                      databases |-> [k \in DOMAIN databases |->
                                                        Describe(databases[k])]]))))
    /\ UNCHANGED <<libp2p, helia, orbitdb, nodes, stores, engines, databases, closed, emitted, channel, subscribers, invoked, contents, localStorage, app, descriptor, built, shell, attentionLog, instances, loads>>

\* orbitdb:query (ipc-bridge.ts:122-157) up to `await db.all()`.
QueryStart(c) ==
    IF ~Has(c.arg.address)
    THEN Finish(c, Returned(Failure(NotFoundMessage(c.arg.address))))
    ELSE IF Get(c.arg.address).type # "documents"
    THEN Finish(c, Returned(Failure(DocumentsOnlyMessage("query"))))
    ELSE Await(c, "awaitAll", c.arg.address)

QueryCall(address, filterFn) ==
    /\ Arrive(Handle(BridgeCall("query", [address |-> address, filter |-> filterFn]),
                     QueryStart(BridgeCall("query", [address |-> address, filter |-> filterFn]))))
    /\ UNCHANGED <<libp2p, helia, orbitdb, nodes, stores, engines, databases, closed, emitted, channel, subscribers, invoked, contents, localStorage, app, descriptor, built, shell, attentionLog, instances, loads>>

\* all.filter(eval(`(${filterFn})`)) for a filterFn that evaluates.
ApplyFilter(all, filterFn) ==
    LET Keep(doc) == filterFn = KeyIsK1 => doc.key = "k1" IN SelectSeq(all, Keep)

\* db.all() resolves with the records of the database: the filter, if there is one, is evaluated and applied
\* inside a try/catch of its own.
QueryFinish(c, all) ==
    IF c.arg.filter # NoFilter /\ c.arg.filter = BadFilter
    THEN Caught(c, SyntaxError, Returned(Failure("Invalid filter function")))
    ELSE IF c.arg.filter # NoFilter
    THEN Finish(c, Returned([success |-> TRUE,
                             documents |-> ApplyFilter(all, c.arg.filter)]))
    ELSE Finish(c, Returned([success |-> TRUE, documents |-> all]))

\* db.all() reads the database at some moment between the call and its
\* resolution (@orbitdb/core: the heads of the log, which it then walks).
QueryRead(i) ==
    /\ i \in Awaiting("awaitAll")
    /\ calls[i].read = <<>>
    /\ calls' = [calls EXCEPT ![i].read = <<contents[calls[i].loc]>>]
    /\ UNCHANGED <<libp2p, helia, orbitdb, nodes, stores, engines, databases, closed, emitted, channel, subscribers, invoked, contents, localStorage, app, descriptor, built, shell, attentionLog, instances, loads, reply, made>>

QueryResolve(i) ==
    /\ i \in Awaiting("awaitAll")
    /\ calls[i].read # <<>>
    /\ ContinueIn(IF Evaluate(databases, calls[i].arg.filter) = databases
                  THEN calls ELSE Rewound(calls),
                  i, QueryFinish([calls[i] EXCEPT !.read = <<>>], calls[i].read[1]))
    /\ databases' = Evaluate(databases, calls[i].arg.filter)
    /\ UNCHANGED <<libp2p, helia, orbitdb, nodes, stores, engines, closed, emitted, channel, subscribers, invoked, contents, localStorage, app, descriptor, built, shell, attentionLog, instances, loads>>

QueryReject(i, error) ==
    /\ i \in Awaiting("awaitAll")
    /\ Continue(i, Caught(calls[i], error, BridgeCatch(error)))
    /\ UNCHANGED <<libp2p, helia, orbitdb, nodes, stores, engines, databases, closed, emitted, channel, subscribers, invoked, contents, localStorage, app, descriptor, built, shell, attentionLog, instances, loads>>

\* orbitdb:add, orbitdb:put, orbitdb:del, orbitdb:get (ipc-bridge.ts:164-276):
\* the four handlers differ in the guard of put and in the call they await.
EntryOps == {"add", "put", "del", "get"}

\* What add and put take is a document, what del and get take is a key.
EntryInputs(op) == IF op \in {"add", "put"} THEN DocInputs ELSE {"k1"}

\* A handler up to `await db.put(doc)`, `await db.del(key)`, `await db.get(id)`;
\* doc._id throws on a missing document.
EntryStart(c) ==
    IF ~Has(c.arg.address)
    THEN Finish(c, Returned(Failure(NotFoundMessage(c.arg.address))))
    ELSE IF Get(c.arg.address).type # "documents"
    THEN Finish(c, Returned(Failure(DocumentsOnlyMessage(c.op))))
    ELSE IF c.op = "put" /\ c.arg.entry = NoDoc
    THEN Caught(c, TypeError, BridgeCatch(TypeError))
    ELSE IF c.op = "put" /\ c.arg.entry = NoId
    THEN Finish(c, Returned(Failure("Document must have _id field for update")))
    ELSE Await(c, "awaitEntry", c.arg.address)

\* Mutant of Invoke: the call reaches the database ahead of the earlier ones.
InvokeFirst(log, call) == <<call>> \o log

\* db.put(doc), db.del(key), db.get(id): the database receives the call when
\* the handler makes it, after the calls made before.
Invoke(log, call) == Append(log, call)

\* The handler runs from the arrival of the request to its await in one step,
\* so the database is called in that step; n is the request's number.
EntryCall(op, address, entry) ==
    LET c == Handle(BridgeCall(op, [address |-> address, entry |-> entry]),
                    EntryStart(BridgeCall(op, [address |-> address, entry |-> entry]))) IN
    /\ Arrive(c)
    /\ invoked' = IF c.pc = "awaitEntry"
                  THEN Invoke(invoked, [address |-> address, op |-> op,
                                        entry |-> entry, n |-> made + 1])
                  ELSE invoked
    /\ UNCHANGED <<libp2p, helia, orbitdb, nodes, stores, engines, databases, closed, emitted, channel, subscribers, contents, localStorage, app, descriptor, built, shell, attentionLog, instances, loads>>

\* The database resolves: get with the record or undefined, the others with
\* the hash of the operation, which the database has applied.  db.put has
\* nothing to resolve with for a document without _id: it rejects.
EntryResolve(i) ==
    /\ i \in Awaiting("awaitEntry")
    /\ LET c == calls[i]
           records == contents[c.loc] IN
        CASE c.op = "get" ->
               /\ Continue(i, Finish(c, Returned([success |-> TRUE,
                                    document |-> GetDoc(records, c.arg.entry)])))
               /\ contents' = contents
          [] c.op = "del" ->
               /\ Continue(i, Finish(c, Returned([success |-> TRUE,
                                    hash |-> HashOf(c.arg.entry)])))
               /\ contents' = [contents EXCEPT ![c.loc] = DelDoc(records, c.arg.entry)]
          [] c.op \in {"add", "put"} ->
               /\ c.arg.entry \notin {NoId, NoDoc}
               /\ Continue(i, Finish(c, Returned([success |-> TRUE,
                                    hash |-> HashOf(c.arg.entry)])))
               /\ contents' = [contents EXCEPT ![c.loc] = PutDoc(records, c.arg.entry)]
    /\ UNCHANGED <<libp2p, helia, orbitdb, nodes, stores, engines, databases, closed, emitted, channel, subscribers, invoked, localStorage, app, descriptor, built, shell, attentionLog, instances, loads>>

EntryReject(i, error) ==
    /\ i \in Awaiting("awaitEntry")
    /\ Continue(i, Caught(calls[i], error, BridgeCatch(error)))
    /\ UNCHANGED <<libp2p, helia, orbitdb, nodes, stores, engines, databases, closed, emitted, channel, subscribers, invoked, contents, localStorage, app, descriptor, built, shell, attentionLog, instances, loads>>

\* orbitdb:info (ipc-bridge.ts:282-303)
InfoStart(c) ==
    IF ~Has(c.arg)
    THEN Finish(c, Returned(Failure(NotFoundMessage(c.arg))))
    ELSE Finish(c, Returned([success |-> TRUE, info |-> Describe(Get(c.arg))]))

InfoCall(address) ==
    /\ Arrive(Handle(BridgeCall("info", address), InfoStart(BridgeCall("info", address))))
    /\ UNCHANGED <<libp2p, helia, orbitdb, nodes, stores, engines, databases, closed, emitted, channel, subscribers, invoked, contents, localStorage, app, descriptor, built, shell, attentionLog, instances, loads>>

----------------------------------------------------------------------------
\* The before-quit handler (index.ts:172-178): closeAllDatabases
\* (ipc-bridge.ts:311-325), then shutdownP2P, then app.exit(0)

\* The process has exited: the handler has run to app.exit(0).
Exited == reply.op = "quit" /\ reply.done

\* Whether the iterator of `for (... of databases.entries())` of handler run
\* c has an entry left, and the place of the next one: a Map iterator goes on
\* to the entries set while it runs.
HasNext(c, map) == c.at < Len(map)
NextEntry(c, map) == c.at + 1

\* Mutant of CloseAllMap: databases.clear() is missing.
CloseAllMapKeeps(c, map) ==
    IF HasNext(c, map)
    THEN [map EXCEPT ![NextEntry(c, map)].tried = TRUE]
    ELSE map

\* The map after the loop head has run: close() has been called on the next
\* database, or, with no entry left, databases.clear().
CloseAllMap(c, map) ==
    IF HasNext(c, map)
    THEN [map EXCEPT ![NextEntry(c, map)].tried = TRUE]
    ELSE <<>>

\* The engine's databases after the loop head has run on `map`: close() has
\* been called on the next database, if it is open.
CloseAllOpen(c, map, open) ==
    IF HasNext(c, map) /\ open[map[NextEntry(c, map)].address] # NoInstance
    THEN [open EXCEPT ![map[NextEntry(c, map)].address].tried = TRUE]
    ELSE open

\* closeAllDatabases from its loop head to its next await, `await db.close()`
\* of the next database, or to its return after the loop, where the handler
\* that awaits it goes on with its next turn.  open: the databases the engine
\* holds open.  loc: the address while the database close() was called on is
\* open, Gone once it has closed.
CloseAllFrom(c, map, open) ==
    IF HasNext(c, map)
    THEN LET address == map[NextEntry(c, map)].address IN
         [Await(c, "awaitDbClose",
                IF open[address] = NoInstance THEN Gone ELSE address) EXCEPT
              !.stopped = Append(@, [member |-> "db", id |-> address]),
              !.at = @ + 1]
    ELSE Await([c EXCEPT !.at = 0], "awaitCloseAllDatabases", Null)

\* The requests cs once the loop head of handler run c has run on `map`.
CloseAllOthers(cs, c, map) == IF HasNext(c, map) THEN cs ELSE Rewound(cs)

\* Handler run c where nothing else is queued to run before its next turn:
\* what it awaits has returned without an await of its own and the handler
\* goes on at once, from `await closeAllDatabases()` with shutdownP2P and
\* from `await shutdownP2P()` with app.exit(0).
AtOnce(c) ==
    LET shut == IF c.pc = "awaitCloseAllDatabases" THEN ShutdownFrom(c, "orbitdb") ELSE c IN
    IF shut.pc = "awaitShutdownP2P" THEN Finish(shut, Returned(Null)) ELSE shut

\* A turn of the before-quit handler is due: the function it awaits has
\* returned.  It runs before the main process takes up anything new.
Resuming ==
    \E i \in DOMAIN calls : calls[i].pc \in {"awaitCloseAllDatabases", "awaitShutdownP2P"}

\* The user quits (the tray's Quit App, Cmd+Q, app.quit() when the last window
\* has closed; index.ts:15, 57): before-quit fires, the handler prevents the
\* default and calls closeAllDatabases.  The application runs on until a
\* handler has reached app.exit(0), so it can be quit again.
QuitCall ==
    /\ ~Resuming
    /\ LET c == NewCall("quit", "main", Null)
           run == AtOnce(CloseAllFrom(c, databases, instances)) IN
        /\ made < MaxCalls
        /\ made' = made + 1
        /\ IF run.done
           THEN /\ calls' = CloseAllOthers(calls, c, databases)
                /\ reply' = run
           ELSE /\ calls' = Append(CloseAllOthers(calls, c, databases), run)
                /\ reply' = NoReply
        /\ databases' = CloseAllMap(c, databases)
        /\ instances' = CloseAllOpen(c, databases, instances)
    /\ UNCHANGED <<libp2p, helia, orbitdb, nodes, stores, engines, closed, emitted, channel, subscribers, invoked, contents, localStorage, app, descriptor, built, shell, attentionLog, loads>>

\* db.close() resolves: the database has closed, if another close() had not
\* closed it before, and the loop goes on.
DbCloseResolve(i) ==
    /\ i \in Awaiting("awaitDbClose")
    /\ instances' = CloseAllOpen(calls[i], databases, Shut(instances, calls[i].loc))
    /\ ContinueIn(CloseAllOthers(Stale(calls, calls[i].loc), calls[i], databases), i,
                  CloseAllFrom(calls[i], databases, Shut(instances, calls[i].loc)))
    /\ databases' = CloseAllMap(calls[i], databases)
    /\ UNCHANGED <<libp2p, helia, orbitdb, nodes, stores, engines, closed, emitted, channel, subscribers, invoked, contents, localStorage, app, descriptor, built, shell, attentionLog, loads>>

\* db.close() rejects: the catch block of the loop logs the error and the
\* loop goes on.
DbCloseReject(i, error) ==
    /\ i \in Awaiting("awaitDbClose")
    /\ instances' = CloseAllOpen(calls[i], databases, instances)
    /\ ContinueIn(CloseAllOthers(calls, calls[i], databases), i,
                  CloseAllFrom([calls[i] EXCEPT !.caught = error], databases, instances))
    /\ databases' = CloseAllMap(calls[i], databases)
    /\ UNCHANGED <<libp2p, helia, orbitdb, nodes, stores, engines, closed, emitted, channel, subscribers, invoked, contents, localStorage, app, descriptor, built, shell, attentionLog, loads>>

\* The turn of the handler after `await closeAllDatabases()`
\* (index.ts:176-177): shutdownP2P up to the stop() it awaits first, or to
\* its return.
QuitShutdown(i) ==
    /\ i \in Awaiting("awaitCloseAllDatabases")
    /\ Continue(i, ShutdownFrom(calls[i], "orbitdb"))
    /\ UNCHANGED <<libp2p, helia, orbitdb, nodes, stores, engines, databases, closed, emitted, channel, subscribers, invoked, contents, localStorage, app, descriptor, built, shell, attentionLog, instances, loads>>

\* The turn of the handler after `await shutdownP2P()` (index.ts:177-178):
\* app.exit(0).
QuitExit(i) ==
    /\ i \in Awaiting("awaitShutdownP2P")
    /\ Continue(i, Finish(calls[i], Returned(Null)))
    /\ UNCHANGED <<libp2p, helia, orbitdb, nodes, stores, engines, databases, closed, emitted, channel, subscribers, invoked, contents, localStorage, app, descriptor, built, shell, attentionLog, instances, loads>>

----------------------------------------------------------------------------
\* Update events: the listener orbitdb:open registers on the database
\* (ipc-bridge.ts:47-55), the 'orbitdb:update' channel (preload.ts:66-73) and
\* the renderer's listener (app-init.js:139-146)

\* entry.payload.op of an entry, NoOp where the entry has none.
NoOp == ""
PayloadOps == {"PUT", NoOp}

\* entry.payload?.op || 'unknown'
OperationOf(entry) == IF entry.op = NoOp THEN "unknown" ELSE entry.op

\* { address, entry, operation } as the listener of `address` sends it.
UpdateMessage(address, entry) ==
    [address |-> address, entry |-> entry, operation |-> OperationOf(entry)]

\* Mutant of Send: a message overtakes the ones sent before it.
SendFirst(queue, messages) == messages \o queue

\* mainWindow.webContents.send('orbitdb:update', ...): the messages join the
\* channel behind the ones already sent.
Send(queue, messages) == queue \o messages

\* The database the engine holds open at `address` emits 'update' for a new
\* entry (a local write or one replicated from a peer): every listener
\* registered on it sends one message, whether the map has a handle of the
\* database or not.
Emit(address, op) ==
    /\ emitted < MaxUpdates
    /\ instances[address] # NoInstance
    /\ emitted' = emitted + 1
    /\ LET entry == [id |-> emitted + 1, op |-> op] IN
        channel' = Send(channel, [k \in 1..instances[address].listeners |->
                                     UpdateMessage(address, entry)])
    /\ UNCHANGED <<libp2p, helia, orbitdb, nodes, stores, engines, databases,
                   closed, subscribers, calls, reply, made, invoked, contents, localStorage, app, descriptor, built, shell, attentionLog, instances, loads>>

\* electronP2P.onUpdate(callback) (preload.ts:66-70), as initializeApp calls
\* it (app-init.js:139-146): one more listener of 'orbitdb:update', which
\* watches the address initializeApp has kept.
onUpdate(listeners, address) ==
    Append(listeners, [watch |-> address, heard |-> <<>>, got |-> <<>>])

\* electronP2P.removeUpdateListener(updateListener) (preload.ts:72-74), as
\* shutdownApp calls it when initializeApp has registered a listener.
removeUpdateListener(listeners) ==
    IF listeners = <<>> THEN listeners ELSE SubSeq(listeners, 1, Len(listeners) - 1)

\* The renderer's listener: it logs the update; one of the address it watches
\* makes it reload the documents (a query request), any other is ignored.
\* heard: the updates it was called with.  got: the ones it reloaded for.
OnUpdate(subscriber, data) ==
    IF data.address = subscriber.watch
    THEN [subscriber EXCEPT !.heard = Append(@, data), !.got = Append(@, data)]
    ELSE [subscriber EXCEPT !.heard = Append(@, data)]

\* The reloads the listeners start for update `data`, after the requests cs:
\* each listener that finds the address it watches calls
\* databases.intentions.all(), which invokes orbitdb:query with that address
\* and awaits the reply (app-init.js:113-114, 141-142).
Reloads(cs, listeners, data) ==
    LET Hears(subscriber) == data.address = subscriber.watch
        hearers == SelectSeq(listeners, Hears) IN
    [k \in DOMAIN hearers |->
        [NewCall("reload", "renderer", data.entry.id) EXCEPT
            !.pc = "awaitIntentionsAll",
            !.invoke = [op |-> "query",
                        arg |-> [address |-> data.address, filter |-> NoFilter],
                        state |-> "sent", order |-> LastOrder(cs, "sent") + k,
                        result |-> Returned(Null)]]]

\* The renderer receives the oldest message of the channel: ipcRenderer calls
\* every registered listener with it.
Receive ==
    /\ channel # <<>>
    /\ LET reloads == Reloads(calls, subscribers, Head(channel)) IN
        /\ made + Len(reloads) <= MaxCalls
        /\ made' = made + Len(reloads)
        /\ calls' = calls \o reloads
        /\ reply' = IF reloads = <<>> THEN reply ELSE NoReply
    /\ subscribers' = [k \in DOMAIN subscribers |->
                          OnUpdate(subscribers[k], Head(channel))]
    /\ channel' = Tail(channel)
    /\ UNCHANGED <<libp2p, helia, orbitdb, nodes, stores, engines, databases,
                   closed, emitted, invoked, contents, localStorage, app, descriptor, built, shell, attentionLog, instances, loads>>

----------------------------------------------------------------------------
\* The renderer's identity module (data-model.js) and initializeApp
\* (app-init.js:37-189)

\* Numbers up to 2^53 - 1, the integers ToIndex accepts, are kept as
\* <<high, low>>, which stands for high * Limb + low with low < Limb.
Limb == 100000000

\* What stands for every number above 2^53 - 1, Infinity included.
Beyond == <<Limb, 0>>

\* 2^53 - 1
MaxSafeInteger == <<90071992, 54740991>>

\* Whether number a is at most number b.
AtMost(a, b) == a[1] < b[1] \/ (a[1] = b[1] /\ a[2] <= b[2])

\* The longest typed array Chromium, which runs the renderer, allocates:
\* 2^31 - 2^21 bytes; a longer one is "Array buffer allocation failed".  Node,
\* which runs the tests, allocates a longer one when it has the memory.
ChromiumLimit == <<21, 45386496>>

\* The longest string V8 builds, 2^29 - 24 characters; a longer one is
\* "Invalid string length".
MaxStringLength == <<5, 36870888>>

\* The value of a character as a digit: '0'..'9' are the sextets 52..61,
\* 'a'..'f' 26..31, 'A'..'F' 0..5; 16 for every other character.
DigitOf(char) ==
    CASE char \in 52..61 -> char - 52
      [] char \in 26..31 -> char - 16
      [] char \in 0..5 -> char + 10
      [] OTHER -> 16

\* Whether the characters are one or more digits of the base.
IsNumeral(chars, base) ==
    chars # <<>> /\ \A k \in DOMAIN chars : DigitOf(chars[k]) < base

\* number * base + digit, Beyond from 10^16 on.
TimesPlus(number, base, digit) ==
    LET low == number[2] * base + digit
        high == number[1] * base + low \div Limb IN
    IF number = Beyond \/ high >= Limb THEN Beyond ELSE <<high, low % Limb>>

\* The value of a numeral.
RECURSIVE Numeral(_, _)
Numeral(chars, base) ==
    IF chars = <<>> THEN <<0, 0>>
    ELSE TimesPlus(Numeral(SubSeq(chars, 1, Len(chars) - 1), base), base,
                   DigitOf(chars[Len(chars)]))

\* mantissa * 10 ^ exponent
RECURSIVE Scaled(_, _)
Scaled(mantissa, exponent) ==
    IF exponent = <<0, 0>> \/ mantissa = <<0, 0>> THEN mantissa
    ELSE IF mantissa = Beyond \/ ~AtMost(exponent, <<0, 16>>) THEN Beyond
    ELSE Scaled(TimesPlus(mantissa, 10, 0), <<0, exponent[2] - 1>>)

\* The characters without a leading '+' (the sextet 62).
Unsigned(chars) == IF chars # <<>> /\ chars[1] = 62 THEN Tail(chars) ELSE chars

\* The value of an unsigned decimal literal of characters that a base64
\* string can have: Infinity, digits, or digits with an exponent part ('e'
\* and 'E' are the sextets 30 and 4); 0 for what is no literal (NaN).
DecimalLiteral(chars) ==
    LET Marks == {k \in DOMAIN chars : chars[k] \in {30, 4}}
        mark == CHOOSE k \in Marks : \A l \in Marks : k <= l
        mantissa == SubSeq(chars, 1, mark - 1)
        exponent == Unsigned(SubSeq(chars, mark + 1, Len(chars))) IN
    IF chars = <<8, 39, 31, 34, 39, 34, 45, 50>> THEN Beyond
    ELSE IF IsNumeral(chars, 10) THEN Numeral(chars, 10)
    ELSE IF Marks # {} /\ IsNumeral(mantissa, 10) /\ IsNumeral(exponent, 10)
    THEN Scaled(Numeral(mantissa, 10), Numeral(exponent, 10))
    ELSE <<0, 0>>

\* ToNumber(string) as the typed array constructor hands it to ToIndex: the
\* empty string is 0; 0x, 0o and 0b ('x', 'X', 'o', 'O', 'b', 'B' are the
\* sextets 49, 23, 40, 14, 27, 1) start a hexadecimal, octal or binary
\* numeral; everything else is a decimal literal with or without '+'.
ToIndex(chars) ==
    LET Radix(char) == CASE char \in {49, 23} -> 16
                         [] char \in {40, 14} -> 8
                         [] char \in {27, 1} -> 2
                         [] OTHER -> 10
        digits == SubSeq(chars, 3, Len(chars)) IN
    IF Len(chars) >= 2 /\ chars[1] = 52 /\ Radix(chars[2]) # 10
    THEN IF IsNumeral(digits, Radix(chars[2]))
         THEN Numeral(digits, Radix(chars[2])) ELSE <<0, 0>>
    ELSE DecimalLiteral(Unsigned(chars))

\* The longest array the model writes out byte by byte.
Listed == 255

\* A Uint8Array of `length` zeros; a longer one than Listed is kept by its
\* length alone.
Zeros(length) ==
    IF AtMost(length, <<0, Listed>>)
    THEN Js("Uint8Array", [k \in 1..length[2] |-> 0])
    ELSE [kind |-> "Uint8Array", length |-> length]

\* new Uint8Array(length) for a length that is an integer: ToIndex throws a
\* RangeError on a negative one and on one above 2^53 - 1, the allocation
\* on one the engine cannot allocate.  room: the engine is one that
\* allocates more than ChromiumLimit and has the memory for this array.
Allocate(length, room) ==
    IF ~AtMost(<<0, 0>>, length) \/ ~AtMost(length, MaxSafeInteger)
       \/ (~AtMost(length, ChromiumLimit) /\ ~room)
    THEN Threw(Error("RangeError"))
    ELSE Returned(Zeros(length))

\* new Uint8Array(x): the bytes of a buffer, a typed array or an array; as
\* many zeros as a number or a numeric string says (the data of a number is
\* <<n>> or, from Limb on, <<high, low>>); nothing for null.
NewUint8Array(x, room) ==
    CASE x.kind \in {"ArrayBuffer", "Uint8Array", "Array"} -> Returned(Js("Uint8Array", x.data))
      [] x.kind = "null" -> Returned(Js("Uint8Array", <<>>))
      [] x.kind = "string" -> Allocate(ToIndex(x.data), room)
      [] x.kind = "number" ->
            Allocate(IF Len(x.data) = 2 THEN x.data
                     ELSE IF x.data[1] < 0 THEN <<-1, 0>>
                     ELSE <<x.data[1] \div Limb, x.data[1] % Limb>>, room)

\* x instanceof Uint8Array ? x : new Uint8Array(x)
AsUint8Array(x, room) ==
    IF x.kind = "Uint8Array" THEN Returned(x) ELSE NewUint8Array(x, room)

\* The '=' that fills up the last group of a base64 string.
Pad == 64

\* btoa of the binary string of the bytes.
RECURSIVE Btoa(_)
Btoa(bytes) ==
    CASE Len(bytes) = 0 -> <<>>
      [] Len(bytes) = 1 -> <<bytes[1] \div 4, (bytes[1] % 4) * 16, Pad, Pad>>
      [] Len(bytes) = 2 -> <<bytes[1] \div 4, (bytes[1] % 4) * 16 + bytes[2] \div 16,
                             (bytes[2] % 16) * 4, Pad>>
      [] OTHER -> <<bytes[1] \div 4, (bytes[1] % 4) * 16 + bytes[2] \div 16,
                    (bytes[2] % 16) * 4 + bytes[3] \div 64, bytes[3] % 64>>
                  \o Btoa(SubSeq(bytes, 4, Len(bytes)))

\* The char codes of the sextets: three for every four, one for two left
\* over and two for three left over.
RECURSIVE Decoded(_)
Decoded(chars) ==
    LET first == chars[1] * 4 + chars[2] \div 16
        second == (chars[2] % 16) * 16 + chars[3] \div 4
        third == (chars[3] % 4) * 64 + chars[4] IN
    CASE Len(chars) < 2 -> <<>>
      [] Len(chars) = 2 -> <<first>>
      [] Len(chars) = 3 -> <<first, second>>
      [] OTHER -> <<first, second, third>> \o Decoded(SubSeq(chars, 5, Len(chars)))

\* atob of a string of base64 characters: one or two '=' at the end of a
\* string whose length is a multiple of 4 are dropped; what is left must hold
\* no '=' and not be one character longer than a multiple of 4, or atob throws.
Atob(chars) ==
    LET n == Len(chars)
        data == IF n > 0 /\ n % 4 = 0 /\ chars[n] = Pad
                THEN SubSeq(chars, 1, IF chars[n - 1] = Pad THEN n - 2 ELSE n - 1)
                ELSE chars IN
    IF Len(data) % 4 = 1 \/ \E k \in DOMAIN data : data[k] = Pad
    THEN Threw(Error("InvalidCharacterError"))
    ELSE Returned(Decoded(data))

\* data-model.js:97-104, of a buffer or of null: no length is allocated.
arrayBufferToBase64(buffer) ==
    Js("string", Btoa(NewUint8Array(buffer, FALSE).value.data))

\* data-model.js:109-116
base64ToUint8Array(base64) ==
    IF Atob(base64.data).threw THEN Atob(base64.data)
    ELSE Returned(Js("Uint8Array", Atob(base64.data).value))

\* The digits of base58btc.encode(bytes) after the multibase prefix 'z': a 0
\* for every leading zero byte, then the bytes as a number in base 58.
RECURSIVE Base58(_)
Base58(bytes) ==
    LET RECURSIVE Number(_)
        Number(bs) == IF bs = <<>> THEN 0
                      ELSE Number(SubSeq(bs, 1, Len(bs) - 1)) * 256 + bs[Len(bs)]
        RECURSIVE Digits(_)
        Digits(n) == IF n = 0 THEN <<>> ELSE Append(Digits(n \div 58), n % 58) IN
    IF bytes # <<>> /\ bytes[1] = 0
    THEN <<0>> \o Base58(SubSeq(bytes, 2, Len(bytes)))
    ELSE Digits(Number(bytes))

\* `did:key:${base58btc.encode(publicKeyBytes)}`; of an array kept by its
\* length, the number of its digits, all 0.  The string has the nine
\* characters of 'did:key:z' and a digit for every zero byte: a RangeError is
\* thrown for one longer than the engine builds.
generateDID(publicKeyBytes) ==
    IF "data" \in DOMAIN publicKeyBytes
    THEN Returned(<<"did:key:", "z", Base58(publicKeyBytes.data)>>)
    ELSE IF AtMost(TimesPlus(publicKeyBytes.length, 1, 9), MaxStringLength)
    THEN Returned(<<"did:key:", "z", [zeros |-> publicKeyBytes.length]>>)
    ELSE Threw(Error("RangeError"))

\* The public keys an authenticator hands out.
PublicKeys == {<<4, 200, 9>>, <<0, 7>>}

\* What navigator.credentials.create resolves with: null, or a credential
\* whose response.getPublicKey() gives the key, gives null (an algorithm the
\* browser cannot export) or does not exist ("undefined").
PublicKeyCredentials ==
    {JsNull} \cup
    {[kind |-> "PublicKeyCredential", id |-> "c1", rawId |-> Js("ArrayBuffer", <<9>>),
      getPublicKey |-> g, type |-> "public-key"] :
        g \in {Js("ArrayBuffer", key) : key \in PublicKeys}
              \cup {JsNull, [kind |-> "undefined"]}}

\* One that has a public key.
Authenticated ==
    [kind |-> "PublicKeyCredential", id |-> "c1", rawId |-> Js("ArrayBuffer", <<9>>),
     getPublicKey |-> Js("ArrayBuffer", <<4, 200, 9>>), type |-> "public-key"]

\* saveWebAuthnCredential (data-model.js:153-163): the item it stores under
\* 'webauthn-credential-current-user', the text JSON.stringify makes of the
\* credential with its public key as base64.
saveWebAuthnCredential(credential) ==
    [kind |-> "string",
     json |-> [credential EXCEPT !.publicKey =
                  IF @.kind = "string" THEN @ ELSE arrayBufferToBase64(@)]]

\* Mutant of getWebAuthnCredential: the item is not found.
getWebAuthnCredentialMisses(item) == Returned(JsNull)

\* getWebAuthnCredential (data-model.js:131-148): null without an item, else
\* JSON.parse of it with a non-empty publicKey string decoded; what the
\* decoding throws is thrown on.
getWebAuthnCredential(item) ==
    IF item = JsNull THEN Returned(JsNull)
    ELSE LET parsed == item.json
             decoded == base64ToUint8Array(parsed.publicKey) IN
         IF parsed.publicKey.kind = "string" /\ parsed.publicKey.data # <<>>
         THEN IF decoded.threw THEN decoded
              ELSE Returned([parsed EXCEPT !.publicKey = decoded.value])
         ELSE Returned(parsed)

\* The credential object of setupDevice (data-model.js:232-244); now is
\* Date.now().
CredentialOf(publicKeyCredential, now) ==
    [kind |-> "credential",
     id |-> publicKeyCredential.id,
     rawId |-> arrayBufferToBase64(publicKeyCredential.rawId),
     publicKey |-> IF publicKeyCredential.getPublicKey.kind # "undefined"
                   THEN publicKeyCredential.getPublicKey
                   ELSE publicKeyCredential.rawId,
     userName |-> "SyncEngine User", createdAt |-> now,
     type |-> publicKeyCredential.type]

\* Mutant of createOrbitDBIdentity: the DID is made of the public key as the
\* credential holds it, which is bytes only where it is a Uint8Array.
createOrbitDBIdentityOfRaw(credential, room) ==
    LET publicKeyBytes == AsUint8Array(credential.publicKey, room)
        did == generateDID(IF credential.publicKey.kind = "Uint8Array"
                           THEN credential.publicKey
                           ELSE Js("Uint8Array", <<>>)) IN
    IF publicKeyBytes.threw THEN publicKeyBytes
    ELSE IF did.threw THEN did
    ELSE Returned([kind |-> "identity",
                   id |-> did.value,
                   publicKey |-> publicKeyBytes.value,
                   type |-> "webauthn", credential |-> credential,
                   sign |-> "function", verify |-> "function"])

\* createOrbitDBIdentity (data-model.js:360-390): the promise resolves with
\* the identity, or rejects with what new Uint8Array or generateDID throws.
createOrbitDBIdentity(credential, room) ==
    LET publicKeyBytes == AsUint8Array(credential.publicKey, room)
        did == IF publicKeyBytes.threw THEN publicKeyBytes
               ELSE generateDID(publicKeyBytes.value) IN
    IF did.threw THEN did
    ELSE Returned([kind |-> "identity",
                   id |-> did.value,
                   publicKey |-> publicKeyBytes.value,
                   type |-> "webauthn", credential |-> credential,
                   sign |-> "function", verify |-> "function"])

\* The public keys of the credentials createOrbitDBIdentity is called with
\* by a caller other than initializeApp (identity.test.js:27-34, 551-558):
\* bytes as a Uint8Array or as a plain Array, and the string '600000000',
\* which new Uint8Array takes for a length.
GivenKeys ==
    {Js("Uint8Array", <<4, 200, 9>>), Js("Array", <<4, 200, 9>>),
     Js("Uint8Array", <<0, 7>>),
     Js("string", <<58, 52, 52, 52, 52, 52, 52, 52, 52>>)}

\* Such a credential: it has no createdAt and no type.
Given(publicKey) ==
    [kind |-> "credential", id |-> "test-credential-123", publicKey |-> publicKey,
     userName |-> "Test User"]

\* createOrbitDBIdentity(credential) called on its own: the async function
\* has no await, so the call ends in the step it is made in.
IdentityCall(credential, room) ==
    /\ LET identity == createOrbitDBIdentity(credential, room) IN
        /\ Arrive(Finish(NewCall("createOrbitDBIdentity", "renderer", credential),
                         identity))
        /\ built' = IF identity.threw THEN built ELSE built \cup {identity.value}
    /\ UNCHANGED <<libp2p, helia, orbitdb, nodes, stores, engines, databases, closed, invoked, contents, emitted, channel, subscribers, localStorage, app, descriptor, shell, attentionLog, instances, loads>>

\* Array.from(bytes)
ArrayFrom(bytes) == [bytes EXCEPT !.kind = "Array"]

\* serializeIdentity (app-init.js:21-29); Array.from(identity.publicKey)
serializeIdentity(identity) ==
    [id |-> identity.id, publicKey |-> ArrayFrom(identity.publicKey),
     type |-> identity.type]

\* The renderer's module variables and stores after a page load
\* (app-init.js:4-7, stores.js); mounted: onMount has called initializeApp.
NoApp ==
    [mounted |-> FALSE, p2pStatus |-> "disconnected", peerId |-> JsNull,
     orbitdbReady |-> FALSE, userIdentity |-> JsNull,
     intentionsDbAddress |-> JsNull, intentions |-> <<>>]

\* The catch block of initializeApp (app-init.js:183-188) on the stores; the
\* error is thrown on.
Failed(stores_) == [stores_ EXCEPT !.p2pStatus = "disconnected", !.orbitdbReady = FALSE]

\* The page is loaded and onMount calls initializeApp (+page.svelte:463-465),
\* which runs to its first await.  Without a stored credential that is
\* navigator.credentials.create in setupDevice, unless the browser has no
\* WebAuthn; with one, the identity is built and electronP2P.initialize()
\* awaited.
InitAppCall(supported) ==
    /\ shell.window
    /\ ~app.mounted
    /\ loads < MaxLoads
    /\ loads' = loads + 1
    /\ LET c == NewCall("initializeApp", "renderer", Null)
           credential == getWebAuthnCredential(localStorage)
           started == [app EXCEPT !.mounted = TRUE, !.p2pStatus = "connecting"]
           identity == createOrbitDBIdentity(credential.value, FALSE) IN
        IF credential.threw
        THEN /\ Arrive(Caught(c, credential.value, credential))
             /\ app' = Failed(started)
             /\ UNCHANGED built
        ELSE IF credential.value = JsNull
        THEN /\ IF supported
                THEN Arrive(Await(c, "awaitCreate", Null)) /\ app' = started
                ELSE /\ Arrive(Caught(c, Error("WebAuthn not supported"),
                                      Threw(Error("WebAuthn not supported"))))
                     /\ app' = Failed(started)
             /\ UNCHANGED built
        ELSE IF identity.threw
        THEN /\ Arrive(Caught(c, identity.value, identity))
             /\ app' = Failed(started)
             /\ UNCHANGED built
        ELSE /\ Arrive(AwaitInvoke(c, "awaitInitialize", identity.value, "initialize", Null))
             /\ app' = [started EXCEPT !.userIdentity = identity.value]
             /\ built' = built \cup {identity.value}
    /\ UNCHANGED <<libp2p, helia, orbitdb, nodes, stores, engines, databases, closed, invoked, contents, emitted, channel, subscribers, localStorage, descriptor, shell, attentionLog, instances>>

\* navigator.credentials.create resolves: with null setupDevice throws; with
\* a credential it saves it, builds the identity and returns, and
\* initializeApp goes on to electronP2P.initialize().
CreateResolve(i, publicKeyCredential, now) ==
    /\ i \in Awaiting("awaitCreate")
    /\ LET c == calls[i]
           credential == CredentialOf(publicKeyCredential, now)
           identity == createOrbitDBIdentity(credential, FALSE) IN
        IF publicKeyCredential = JsNull
        THEN /\ Continue(i, Caught(c, Error("Failed to create credential"),
                                   Threw(Error("Failed to create credential"))))
             /\ app' = Failed(app)
             /\ UNCHANGED <<localStorage, built>>
        ELSE IF identity.threw
        THEN /\ localStorage' = saveWebAuthnCredential(credential)
             /\ Continue(i, Caught(c, identity.value, identity))
             /\ app' = Failed(app)
             /\ UNCHANGED built
        ELSE /\ localStorage' = saveWebAuthnCredential(credential)
             /\ built' = built \cup {identity.value}
             /\ app' = [app EXCEPT !.userIdentity = identity.value]
             /\ Continue(i, AwaitInvoke(c, "awaitInitialize", identity.value,
                                        "initialize", Null))
    /\ UNCHANGED <<libp2p, helia, orbitdb, nodes, stores, engines, databases, closed, invoked, contents, emitted, channel, subscribers, descriptor, shell, attentionLog, instances, loads>>

\* Mutant of CreateReject: a credential without a key is saved before the
\* error is thrown on.
CreateRejectPersists(i, error) ==
    /\ i \in Awaiting("awaitCreate")
    /\ Continue(i, Caught(calls[i], error, Threw(error)))
    /\ app' = Failed(app)
    /\ localStorage' = saveWebAuthnCredential([kind |-> "credential", publicKey |-> JsNull])
    /\ UNCHANGED <<libp2p, helia, orbitdb, nodes, stores, engines, databases, closed, invoked, contents, emitted, channel, subscribers, descriptor, built, shell, attentionLog, instances, loads>>

\* navigator.credentials.create rejects (the user cancels): setupDevice and
\* initializeApp throw it on.
CreateReject(i, error) ==
    /\ i \in Awaiting("awaitCreate")
    /\ Continue(i, Caught(calls[i], error, Threw(error)))
    /\ app' = Failed(app)
    /\ UNCHANGED <<libp2p, helia, orbitdb, nodes, stores, engines, databases, closed, invoked, contents, emitted, channel, subscribers, localStorage, descriptor, built, shell, attentionLog, instances, loads>>

\* electronP2P.initialize() returns (app-init.js:65-78): on success the
\* descriptor of the identity is sent with p2p:createOrbitDB.
P2PInitReturn(i) ==
    /\ i \in Replying("initializeApp", "awaitInitialize")
    /\ LET c == Resumed(calls[i])
           result == calls[i].invoke.result.value IN
        IF result.success
        THEN /\ app' = [app EXCEPT !.peerId = Js("string", result.peerId),
                                   !.p2pStatus = "connected"]
             /\ descriptor' = serializeIdentity(c.loc)
             /\ Continue(i, AwaitInvoke(c, "awaitCreateOrbitDB", c.loc,
                                        "createOrbitDB", serializeIdentity(c.loc)))
        ELSE /\ app' = Failed(app)
             /\ UNCHANGED descriptor
             /\ Continue(i, Caught(c, Error("P2P initialization failed: " \o result.error),
                                   Threw(Error("P2P initialization failed: " \o result.error))))
    /\ UNCHANGED <<libp2p, helia, orbitdb, nodes, stores, engines, databases, closed, invoked, contents, emitted, channel, subscribers, localStorage, built, shell, attentionLog, instances, loads>>

\* The later calls of initializeApp return (app-init.js:78-153):
\* electronP2P.createOrbitDB, then openDatabase, then the first
\* databases.intentions.all().  With the reply of openDatabase the address is
\* kept, the update listener registered and the query sent, in one step.  A
\* failure is thrown on, the first two under a message of their own; after
\* the last { p2pInstance, databases } is returned, which are the module's
\* p2pInstance, never assigned, and its proxy of the intentions database
\* with the address it was made with.
InitAppStep(i) ==
    /\ i \in Replying("initializeApp", "awaitCreateOrbitDB")
             \cup Replying("initializeApp", "awaitOpenDatabase")
             \cup Replying("initializeApp", "awaitIntentionsAll")
    /\ ~calls[i].invoke.result.threw
    /\ LET c == Resumed(calls[i])
           result == calls[i].invoke.result.value
           error == CASE c.pc = "awaitCreateOrbitDB" ->
                           Error("OrbitDB creation failed: " \o result.error)
                      [] c.pc = "awaitOpenDatabase" ->
                           Error("Database open failed: " \o result.error)
                      [] c.pc = "awaitIntentionsAll" -> Error(result.error) IN
        CASE ~result.success ->
               /\ app' = Failed(app)
               /\ Continue(i, Caught(c, error, Threw(error)))
               /\ UNCHANGED subscribers
          [] result.success /\ c.pc = "awaitCreateOrbitDB" ->
               /\ app' = app
               /\ Continue(i, AwaitInvoke(c, "awaitOpenDatabase", c.loc,
                                          "open", "documents"))
               /\ UNCHANGED subscribers
          [] result.success /\ c.pc = "awaitOpenDatabase" ->
               /\ app' = [app EXCEPT !.intentionsDbAddress =
                             Js("string", result.address)]
               /\ subscribers' = onUpdate(subscribers, result.address)
               /\ Continue(i, AwaitInvoke(c, "awaitIntentionsAll", c.loc, "query",
                                          [address |-> result.address,
                                           filter |-> NoFilter]))
          [] result.success /\ c.pc = "awaitIntentionsAll" ->
               /\ app' = [app EXCEPT !.intentions = result.documents,
                                     !.orbitdbReady = TRUE]
               /\ Continue(i, Finish(c, Returned(
                      [p2pInstance |-> JsNull,
                       databases |-> [intentions |->
                                         [address |-> calls[i].invoke.arg.address]]])))
               /\ UNCHANGED subscribers
    /\ UNCHANGED <<libp2p, helia, orbitdb, nodes, stores, engines, databases, closed, invoked, contents, emitted, channel, localStorage, descriptor, built, shell, attentionLog, instances, loads>>

\* shutdownApp (app-init.js:194-210) up to its await: the update listener is
\* removed, and closeDatabase awaited if initializeApp has kept an address.
ShutdownAppCall ==
    /\ app.mounted
    /\ LET c == NewCall("shutdownApp", "renderer", Null) IN
        IF app.intentionsDbAddress # JsNull
        THEN Arrive(AwaitInvoke(c, "awaitCloseDatabase", app.intentionsDbAddress,
                                "close", app.intentionsDbAddress.data))
        ELSE Arrive(Finish(c, Returned(Null)))
    /\ subscribers' = removeUpdateListener(subscribers)
    /\ UNCHANGED <<libp2p, helia, orbitdb, nodes, stores, engines, databases, closed, invoked, contents, emitted, channel, localStorage, app, descriptor, built, shell, attentionLog, instances, loads>>

\* closeDatabase returns, with success or with a failure: the address is
\* forgotten.
ShutdownAppStep(i) ==
    /\ i \in Replying("shutdownApp", "awaitCloseDatabase")
    /\ ~calls[i].invoke.result.threw
    /\ app' = [app EXCEPT !.intentionsDbAddress = JsNull]
    /\ Continue(i, Finish(Resumed(calls[i]), Returned(Null)))
    /\ UNCHANGED <<libp2p, helia, orbitdb, nodes, stores, engines, databases, closed, invoked, contents, emitted, channel, subscribers, localStorage, descriptor, built, shell, attentionLog, instances, loads>>

\* The invocation of a request of the page is rejected: it had reached the
\* main process before setupOrbitDBIPC had run.  That is the openDatabase or
\* the first query of initializeApp (app-init.js:88, 149), whose catch block
\* throws the error on; the closeDatabase of shutdownApp, which has none; or
\* the query of the update listener (app-init.js:142).
NoHandler(i) ==
    /\ i \in Replying("initializeApp", "awaitOpenDatabase")
             \cup Replying("initializeApp", "awaitIntentionsAll")
             \cup Replying("shutdownApp", "awaitCloseDatabase")
             \cup Replying("reload", "awaitIntentionsAll")
    /\ calls[i].invoke.result.threw
    /\ LET c == Resumed(calls[i])
           error == calls[i].invoke.result.value IN
        IF c.op = "initializeApp"
        THEN app' = Failed(app) /\ Continue(i, Caught(c, error, Threw(error)))
        ELSE app' = app /\ Continue(i, Finish(c, Threw(error)))
    /\ UNCHANGED <<libp2p, helia, orbitdb, nodes, stores, engines, databases, closed, invoked, contents, emitted, channel, subscribers, localStorage, descriptor, built, shell, attentionLog, instances, loads>>

\* ipcMain takes up the invocation of request i of the page, the oldest one
\* it has not taken up yet, and runs the handler of its channel
\* (index.ts:146-148, ipc-bridge.ts:24, 76, 122).
TakeUp(i) ==
    /\ i \in DOMAIN calls
    /\ i = Oldest(calls, "sent")
    /\ LET invoke == calls[i].invoke IN
        CASE invoke.op = "initialize" -> InitCall
          [] invoke.op = "createOrbitDB" -> BindCall(invoke.arg)
          [] invoke.op = "open" -> OpenCall(invoke.arg)
          [] invoke.op = "close" -> CloseCall(invoke.arg)
          [] invoke.op = "query" -> QueryCall(invoke.arg.address, invoke.arg.filter)

\* The page is reloaded: the module state and the stores start anew, the
\* listeners of the old page are gone with it and what it was waiting for is
\* never continued; localStorage stays.
Reload ==
    /\ app.mounted
    /\ app' = NoApp
    /\ subscribers' = <<>>
    /\ calls' = LET Main(c) == c.via # "renderer"
                    kept == SelectSeq(calls, Main) IN
                [k \in DOMAIN kept |-> [kept[k] EXCEPT !.from = 0]]
    /\ reply' = NoReply
    /\ UNCHANGED <<libp2p, helia, orbitdb, nodes, stores, engines, databases, closed, invoked, contents, emitted, channel, localStorage, descriptor, built, made, shell, attentionLog, instances, loads>>

\* identity.verify(signature, data, publicKey) (data-model.js:382-388) up to
\* the first await of verifyWithWebCrypto: data, signature and publicKey are
\* made Uint8Arrays in this order outside the try block, and the first
\* conversion that throws ends the call; then crypto.subtle.importKey is
\* awaited.  rooms: for each of the three, whether the engine has room.
VerifyCall(signature, data, publicKey, rooms) ==
    /\ LET c == NewCall("verify", "renderer",
                        [signature |-> signature, data |-> data, publicKey |-> publicKey])
           converted == <<AsUint8Array(data, rooms[1]), AsUint8Array(signature, rooms[2]),
                          AsUint8Array(publicKey, rooms[3])>>
           Throwing == {k \in 1..3 : converted[k].threw} IN
        IF Throwing # {}
        THEN Arrive(Finish(c, converted[CHOOSE k \in Throwing : \A l \in Throwing : k <= l]))
        ELSE Arrive(Await(c, "awaitImportKey", Null))
    /\ UNCHANGED <<libp2p, helia, orbitdb, nodes, stores, engines, databases, closed, invoked, contents, emitted, channel, subscribers, localStorage, app, descriptor, built, shell, attentionLog, instances, loads>>

\* verifyWithWebCrypto (data-model.js:318-353): importKey, then digest, then
\* verify resolve; the last one with the verdict, which is returned.
CryptoResolve(i, isValid) ==
    /\ i \in Awaiting("awaitImportKey") \cup Awaiting("awaitDigest")
             \cup Awaiting("awaitVerify")
    /\ LET c == calls[i] IN
        CASE c.pc = "awaitImportKey" -> Continue(i, Await(c, "awaitDigest", Null))
          [] c.pc = "awaitDigest" -> Continue(i, Await(c, "awaitVerify", Null))
          [] c.pc = "awaitVerify" -> Continue(i, Finish(c, Returned(isValid)))
    /\ UNCHANGED <<libp2p, helia, orbitdb, nodes, stores, engines, databases, closed, invoked, contents, emitted, channel, subscribers, localStorage, app, descriptor, built, shell, attentionLog, instances, loads>>

\* One of the three rejects: the catch block returns false.
CryptoReject(i, error) ==
    /\ i \in Awaiting("awaitImportKey") \cup Awaiting("awaitDigest")
             \cup Awaiting("awaitVerify")
    /\ Continue(i, Caught(calls[i], error, Returned(FALSE)))
    /\ UNCHANGED <<libp2p, helia, orbitdb, nodes, stores, engines, databases, closed, invoked, contents, emitted, channel, subscribers, localStorage, app, descriptor, built, shell, attentionLog, instances, loads>>

----------------------------------------------------------------------------
\* The renderer's view of the intentions database (app-init.js:113-150): the
\* update listener reloads the documents with a query and sets the store
\* to what the query returns.

\* The address initializeApp has opened.
Intentions == AddressOf(Name, "documents")

\* The documents written while the renderer watches.
Written == {Doc("k1"), Doc("k3")}

\* The database applies a write (a local one or one replicated from a peer)
\* and emits 'update': every listener orbitdb:open has registered on it sends
\* the message.
WriteEmits(doc) ==
    /\ emitted < MaxUpdates
    /\ instances[Intentions] # NoInstance
    /\ emitted' = emitted + 1
    /\ contents' = [contents EXCEPT ![Intentions] = PutDoc(@, doc)]
    /\ channel' = Send(channel, [k \in 1..instances[Intentions].listeners |->
                                    UpdateMessage(Intentions,
                                                  [id |-> emitted + 1, op |-> "PUT"])])
    /\ UNCHANGED <<libp2p, helia, orbitdb, nodes, stores, engines, databases, instances, closed, invoked, subscribers, localStorage, app, descriptor, built, shell, attentionLog, calls, reply, made, loads>>

\* intentions.set(allIntentions)
SetIntentions(stores_, documents) == [stores_ EXCEPT !.intentions = documents]

\* The reply of orbitdb:query reaches the update listener
\* (app-init.js:113-119, 142-143): databases.intentions.all() returns the
\* documents of a success, which the listener sets the store to, and throws
\* the error of a failure, which nothing catches.
QueryReply(i) ==
    /\ i \in Replying("reload", "awaitIntentionsAll")
    /\ ~calls[i].invoke.result.threw
    /\ LET c == Resumed(calls[i])
           result == calls[i].invoke.result.value IN
        IF result.success
        THEN /\ app' = SetIntentions(app, result.documents)
             /\ Continue(i, Finish(c, Returned(Null)))
        ELSE /\ app' = app
             /\ Continue(i, Finish(c, Threw(Error(result.error))))
    /\ UNCHANGED <<libp2p, helia, orbitdb, nodes, stores, engines, databases, closed, invoked, contents, emitted, channel, subscribers, localStorage, descriptor, built, shell, attentionLog, instances, loads>>

----------------------------------------------------------------------------
\* switchAttention (data-model.js:67-83)

\* The user whose attention the log records, and the intentions it switches
\* to.
UserId == "did:key:z1"
IntentionIds == {"int_1", "int_2"}

\* The event switchAttention builds from the entries collected; Date.now() is
\* read off the number of requests made so far.
AttentionEvent(entries, userId, intentionId, now) ==
    [index |-> Len(entries), userId |-> userId, intentionId |-> intentionId,
     timestamp |-> now]

\* switchAttention(attentionLog, intentionId, userId) runs up to its first
\* await: attentionLog.iterator({ limit: -1 }).collect() is pending.
SwitchCall(intentionId) ==
    /\ Arrive(Await(NewCall("switchAttention", "renderer", intentionId),
                    "awaitCollect", Null))
    /\ UNCHANGED <<libp2p, helia, orbitdb, nodes, stores, engines, databases, closed, invoked, contents, emitted, channel, subscribers, localStorage, app, descriptor, built, shell, attentionLog, instances, loads>>

\* collect() resolves with the entries of the log: the event is built with
\* their number as its index and attentionLog.add(event) is pending.
CollectResolve(i) ==
    /\ i \in Awaiting("awaitCollect")
    /\ Continue(i, Await(calls[i], "awaitAdd",
                         AttentionEvent(attentionLog, UserId, calls[i].arg, made)))
    /\ UNCHANGED <<libp2p, helia, orbitdb, nodes, stores, engines, databases, closed, invoked, contents, emitted, channel, subscribers, localStorage, app, descriptor, built, shell, attentionLog, instances, loads>>

\* collect() rejects: switchAttention has no catch and throws.
CollectReject(i, error) ==
    /\ i \in Awaiting("awaitCollect")
    /\ Continue(i, Finish(calls[i], Threw(error)))
    /\ UNCHANGED <<libp2p, helia, orbitdb, nodes, stores, engines, databases, closed, invoked, contents, emitted, channel, subscribers, localStorage, app, descriptor, built, shell, attentionLog, instances, loads>>

\* attentionLog.add(event) resolves: the event is the newest entry of the log
\* and switchAttention returns it.
AddResolve(i) ==
    /\ i \in Awaiting("awaitAdd")
    /\ attentionLog' = Append(attentionLog, calls[i].loc)
    /\ Continue(i, Finish(calls[i], Returned(calls[i].loc)))
    /\ UNCHANGED <<libp2p, helia, orbitdb, nodes, stores, engines, databases, instances, closed, invoked, contents, emitted, channel, subscribers, localStorage, app, descriptor, built, shell, loads>>

\* attentionLog.add(event) rejects: nothing is added and switchAttention
\* throws.
AddReject(i, error) ==
    /\ i \in Awaiting("awaitAdd")
    /\ Continue(i, Finish(calls[i], Threw(error)))
    /\ UNCHANGED <<libp2p, helia, orbitdb, nodes, stores, engines, databases, closed, invoked, contents, emitted, channel, subscribers, localStorage, app, descriptor, built, shell, attentionLog, instances, loads>>

----------------------------------------------------------------------------
\* Start-up of the main process (index.ts:41-50, 150-158)

\* app.whenReady() has resolved: the window is not built yet, the timer that
\* will call setupOrbitDBIPC is set, the orbitdb:* channels have no handler.
Down == [window |-> FALSE, timer |-> TRUE, handlers |-> FALSE]

\* The window is there and the timer has registered the handlers.
Up == [window |-> TRUE, timer |-> FALSE, handlers |-> TRUE]

\* myCapacitorApp.init() builds the main window and loads the page.
WindowCreated ==
    /\ ~shell.window
    /\ shell' = [shell EXCEPT !.window = TRUE]
    /\ reply' = NoReply
    /\ UNCHANGED <<libp2p, helia, orbitdb, nodes, stores, engines, databases, instances, closed, invoked, contents, emitted, channel, subscribers, localStorage, app, descriptor, built, attentionLog, calls, made, loads>>

\* The 1000 ms timer fires: setupOrbitDBIPC is called if there is a main
\* window, and not at all otherwise.
TimerFires ==
    /\ shell.timer
    /\ shell' = [shell EXCEPT !.timer = FALSE, !.handlers = shell.window]
    /\ reply' = NoReply
    /\ UNCHANGED <<libp2p, helia, orbitdb, nodes, stores, engines, databases, instances, closed, invoked, contents, emitted, channel, subscribers, localStorage, app, descriptor, built, attentionLog, calls, made, loads>>

----------------------------------------------------------------------------
\* The process starts (index.ts:161-169): the app-ready hook has called
\* initializeP2P, which is suspended in createLibp2p.
Init ==
    /\ libp2p = Null
    /\ helia = Null
    /\ orbitdb = Null
    /\ nodes = <<>>
    /\ stores = <<>>
    /\ engines = <<>>
    /\ databases = <<>>
    /\ instances = [address \in Addresses |-> NoInstance]
    /\ closed = {}
    /\ invoked = <<>>
    /\ contents = [address \in Addresses |-> <<>>]
    /\ emitted = 0
    /\ channel = <<>>
    /\ subscribers = <<>>
    /\ localStorage = JsNull
    /\ app = NoApp
    /\ descriptor = JsNull
    /\ built = {}
    /\ shell = Down
    /\ attentionLog = <<>>
    /\ calls = <<[Alone("initialize", "main", Null) EXCEPT !.pc = "awaitLibp2p"]>>
    /\ reply = NoReply
    /\ made = 1
    /\ loads = 0

\* The requests and continuations of the Supervisor (p2p-main.ts).
SupervisorNext ==
    \/ InitCall
    \/ \E i \in DOMAIN calls : InitLibp2pResolve(i)
    \/ \E i \in DOMAIN calls, e \in Errors : InitLibp2pReject(i, e)
    \/ \E i \in DOMAIN calls : InitHeliaResolve(i)
    \/ \E i \in DOMAIN calls, e \in Errors : InitHeliaReject(i, e)
    \/ \E id \in Identities : BindCall(id)
    \/ \E i \in DOMAIN calls : BindResolve(i)
    \/ \E i \in DOMAIN calls, e \in Errors : BindReject(i, e)
    \/ \E a \in DialInputs : DialCall(a)
    \/ \E i \in DOMAIN calls : DialResolve(i)
    \/ \E i \in DOMAIN calls, e \in DialErrors : DialReject(i, e)
    \/ \E op \in Getters : GetCall(op)
    \/ ShutdownCall
    \/ \E i \in DOMAIN calls : ShutdownOrbitDBStopped(i)
    \/ \E i \in DOMAIN calls : ShutdownHeliaStopped(i)
    \/ \E i \in DOMAIN calls : ShutdownLibp2pStopped(i)
    \/ \E i \in DOMAIN calls, e \in Errors : ShutdownStopFailed(i, e)

\* The requests and continuations of the database handlers (ipc-bridge.ts).
BridgeNext ==
    \/ \E o \in OpenInputs : OpenCall(o)
    \/ \E i \in DOMAIN calls : OpenResolve(i)
    \/ \E i \in DOMAIN calls, e \in DatabaseErrors : OpenReject(i, e)
    \/ \E a \in Addresses : CloseCall(a)
    \/ \E i \in DOMAIN calls : CloseResolve(i)
    \/ \E i \in DOMAIN calls, e \in DatabaseErrors : CloseReject(i, e)
    \/ GetDatabasesCall
    \/ \E a \in Addresses, f \in Filters : QueryCall(a, f)
    \/ \E i \in DOMAIN calls : QueryRead(i)
    \/ \E i \in DOMAIN calls : QueryResolve(i)
    \/ \E i \in DOMAIN calls, e \in DatabaseErrors : QueryReject(i, e)
    \/ \E op \in EntryOps, a \in Addresses : \E x \in EntryInputs(op) : EntryCall(op, a, x)
    \/ \E i \in DOMAIN calls : EntryResolve(i)
    \/ \E i \in DOMAIN calls, e \in DatabaseErrors : EntryReject(i, e)
    \/ \E a \in Addresses : InfoCall(a)

\* Opening and closing databases, the updates the open ones emit and the
\* renderer's listeners.
EventNext ==
    \/ \E o \in OpenInputs : OpenCall(o)
    \/ \E i \in DOMAIN calls : OpenResolve(i)
    \/ \E i \in DOMAIN calls, e \in DatabaseErrors : OpenReject(i, e)
    \/ \E a \in Addresses : CloseCall(a)
    \/ \E i \in DOMAIN calls : CloseResolve(i)
    \/ \E i \in DOMAIN calls, e \in DatabaseErrors : CloseReject(i, e)
    \/ \E a \in Addresses, op \in PayloadOps : Emit(a, op)
    \/ \E i \in DOMAIN calls : InitAppStep(i)
    \/ Receive

\* The main process from its start: the window, the timer and the handlers.
Next == SupervisorNext \/ BridgeNext \/ WindowCreated \/ TimerFires

Spec == Init /\ [][Next]_vars

\* The credential setupDevice has stored on the first page load, and the
\* identity made of it.
Someone == CredentialOf(Authenticated, 1)

Me == createOrbitDBIdentity(Someone, FALSE).value

\* The main process once start-up is over and the page's initializeApp has
\* had the replies of electronP2P.initialize() and createOrbitDB(): the
\* app-ready initializeP2P has made node and store 1, the page's
\* p2p:initialize, which runs initializeP2P again, node and store 2, and
\* p2p:createOrbitDB the engine on store 2.  Nothing is in flight in the main
\* process and the one page load has stored the credential.  made counts the
\* requests from this state on.
Started ==
    /\ libp2p = 2
    /\ helia = 2
    /\ orbitdb = 1
    /\ nodes = <<[running |-> TRUE, conns |-> {}], [running |-> TRUE, conns |-> {}]>>
    /\ stores = <<[running |-> TRUE], [running |-> TRUE]>>
    /\ engines = <<[running |-> TRUE]>>
    /\ closed = {}
    /\ invoked = <<>>
    /\ \E stored \in Stored :
          contents = [address \in Addresses |->
                        IF address = AddressOf(Name, "documents")
                        THEN stored ELSE <<>>]
    /\ emitted = 0
    /\ channel = <<>>
    /\ attentionLog = <<>>
    /\ localStorage = saveWebAuthnCredential(Someone)
    /\ descriptor = serializeIdentity(Me)
    /\ built = {Me}
    /\ shell = Up
    /\ reply = NoReply
    /\ made = 0
    /\ loads = 1

\* The page after initializeApp has had the reply of createOrbitDB().
Connected ==
    [NoApp EXCEPT !.mounted = TRUE, !.p2pStatus = "connected",
                  !.peerId = Js("string", PeerIdOf(2)), !.userIdentity = Me]

\* The same with no database open: the openDatabase of initializeApp has
\* returned a failure (orbitdb.open rejected) and initializeApp has thrown.
Ready ==
    /\ Started
    /\ databases = <<>>
    /\ instances = [address \in Addresses |-> NoInstance]
    /\ subscribers = <<>>
    /\ app = Failed(Connected)
    /\ calls = <<>>

\* The same where the intentions database holds nothing.
Quiet == Ready /\ contents[Intentions] = <<>>

BridgeSpec == Ready /\ [][BridgeNext]_vars

\* The page is loaded and its initializeApp has called openDatabase
\* (app-init.js:88): no database is open yet.
Opening ==
    /\ Started
    /\ databases = <<>>
    /\ instances = [address \in Addresses |-> NoInstance]
    /\ subscribers = <<>>
    /\ app = Connected
    /\ calls = <<[Alone("initializeApp", "renderer", Null) EXCEPT
                     !.pc = "awaitOpenDatabase", !.loc = Me,
                     !.met = {"initialize", "createOrbitDB"},
                     !.invoke = [NoInvoke EXCEPT !.op = "open", !.arg = "documents",
                                                 !.state = "sent", !.order = 1]]>>

\* The update events of the databases the renderer opens, from there on.
EventSpec == Opening /\ [][EventNext]_vars

\* The arguments identity.verify is called with: bytes; the string the
\* database engine keeps a signature as, with data and key as the Arrays a
\* message holds; a number for the signature; the string "3000000000" for
\* it; a public key of no bytes.
VerifyInputs ==
    {[signature |-> Js("Uint8Array", <<4, 5, 6>>), data |-> Js("Uint8Array", <<1, 2, 3>>),
      publicKey |-> Js("Uint8Array", <<4, 200, 9>>)],
     [signature |-> Js("string", <<29, 30>>), data |-> Js("Array", <<1, 2, 3>>),
      publicKey |-> Js("Array", <<4, 200, 9>>)],
     [signature |-> Js("number", <<-1>>), data |-> Js("Uint8Array", <<1, 2, 3>>),
      publicKey |-> Js("Uint8Array", <<4, 200, 9>>)],
     [signature |-> Js("string", <<55, 52, 52, 52, 52, 52, 52, 52, 52, 52>>),
      data |-> Js("Uint8Array", <<1, 2, 3>>),
      publicKey |-> Js("Uint8Array", <<4, 200, 9>>)],
     [signature |-> Js("Uint8Array", <<4, 5, 6>>), data |-> Js("Uint8Array", <<1, 2, 3>>),
      publicKey |-> Js("Uint8Array", <<>>)]}

\* The handlers the page's invocations run, and their continuations.
AnswerNext ==
    \/ \E i \in DOMAIN calls : TakeUp(i)
    \/ \E i \in DOMAIN calls : InitLibp2pResolve(i)
    \/ \E i \in DOMAIN calls, e \in Errors : InitLibp2pReject(i, e)
    \/ \E i \in DOMAIN calls : InitHeliaResolve(i)
    \/ \E i \in DOMAIN calls, e \in Errors : InitHeliaReject(i, e)

\* The page up to the reply of p2p:createOrbitDB: its loads, with every
\* credential the authenticator can hand out, and the first steps of
\* initializeApp; and createOrbitDBIdentity called on its own.
IdentityNext ==
    \/ WindowCreated
    \/ \E supported \in BOOLEAN : InitAppCall(supported)
    \/ \E key \in GivenKeys, room \in BOOLEAN : IdentityCall(Given(key), room)
    \/ \E i \in DOMAIN calls, publicKeyCredential \in PublicKeyCredentials, now \in {1, 2} :
          CreateResolve(i, publicKeyCredential, now)
    \/ \E i \in DOMAIN calls : CreateReject(i, Error("NotAllowedError"))
    \/ \E i \in DOMAIN calls : P2PInitReturn(i)
    \/ Reload
    \/ AnswerNext

\* The main process from its start, with the page it loads.
IdentitySpec == Init /\ [][IdentityNext]_vars

\* The calls of identity.verify, with crypto.subtle as the collaborator;
\* whether there is room is a choice where a length is allocated.
VerifyNext ==
    \/ \E input \in VerifyInputs, rooms \in BOOLEAN \X BOOLEAN \X BOOLEAN :
          /\ rooms[1] => input.data.kind \in {"string", "number"}
          /\ rooms[2] => input.signature.kind \in {"string", "number"}
          /\ rooms[3] => input.publicKey.kind \in {"string", "number"}
          /\ VerifyCall(input.signature, input.data, input.publicKey, rooms)
    \/ \E i \in DOMAIN calls, isValid \in BOOLEAN : CryptoResolve(i, isValid)
    \/ \E i \in DOMAIN calls : CryptoReject(i, Error("DataError"))

VerifySpec == Quiet /\ [][VerifyNext]_vars

\* Opening databases and querying them with every filterFn the renderer can
\* send over orbitdb:query.
QueryNext ==
    \/ \E o \in OpenInputs : OpenCall(o)
    \/ \E i \in DOMAIN calls : OpenResolve(i)
    \/ \E a \in Addresses, f \in Predicates : QueryCall(a, f)
    \/ \E i \in DOMAIN calls : QueryRead(i)
    \/ \E i \in DOMAIN calls : QueryResolve(i)
    \/ \E i \in DOMAIN calls, e \in DatabaseErrors : QueryReject(i, e)

QuerySpec == Ready /\ [][QueryNext]_vars

\* The renderer opens, closes and lists databases and the user quits.  The
\* main process takes up nothing new while a turn of the handler is due, and
\* once it has exited nothing runs any more.
QuitNext ==
    \/ ~Exited /\ ~Resuming /\ \E o \in OpenInputs : OpenCall(o)
    \/ ~Exited /\ \E i \in DOMAIN calls : OpenResolve(i)
    \/ ~Exited /\ \E i \in DOMAIN calls, e \in DatabaseErrors : OpenReject(i, e)
    \/ ~Exited /\ ~Resuming /\ \E a \in Addresses : CloseCall(a)
    \/ ~Exited /\ \E i \in DOMAIN calls : CloseResolve(i)
    \/ ~Exited /\ \E i \in DOMAIN calls, e \in DatabaseErrors : CloseReject(i, e)
    \/ ~Exited /\ ~Resuming /\ GetDatabasesCall
    \/ ~Exited /\ QuitCall
    \/ ~Exited /\ \E i \in DOMAIN calls : DbCloseResolve(i)
    \/ ~Exited /\ \E i \in DOMAIN calls, e \in DatabaseErrors : DbCloseReject(i, e)
    \/ ~Exited /\ \E i \in DOMAIN calls : ShutdownOrbitDBStopped(i)
    \/ ~Exited /\ \E i \in DOMAIN calls : ShutdownHeliaStopped(i)
    \/ ~Exited /\ \E i \in DOMAIN calls : ShutdownLibp2pStopped(i)
    \/ ~Exited /\ \E i \in DOMAIN calls, e \in Errors :
                    ~IsNotFound(e) /\ ShutdownStopFailed(i, e)
    \/ ~Exited /\ \E i \in DOMAIN calls : QuitShutdown(i)
    \/ ~Exited /\ \E i \in DOMAIN calls : QuitExit(i)

QuitSpec == Quiet /\ [][QuitNext]_vars

\* Start-up: the window is built, the timer fires and the renderer runs
\* initializeApp, in any order the code allows.
StartNext ==
    \/ WindowCreated
    \/ TimerFires
    \/ \E supported \in BOOLEAN : InitAppCall(supported)
    \/ \E i \in DOMAIN calls : CreateResolve(i, Authenticated, 1)
    \/ \E i \in DOMAIN calls : CreateReject(i, Error("NotAllowedError"))
    \/ \E i \in DOMAIN calls : P2PInitReturn(i)
    \/ \E i \in DOMAIN calls : InitAppStep(i)
    \/ \E i \in DOMAIN calls : NoHandler(i)
    \/ ShutdownAppCall
    \/ \E i \in DOMAIN calls : ShutdownAppStep(i)
    \/ Reload
    \/ AnswerNext
    \/ \E i \in DOMAIN calls : BindResolve(i)
    \/ \E i \in DOMAIN calls, e \in Errors : BindReject(i, e)
    \/ \E i \in DOMAIN calls : OpenResolve(i)
    \/ \E i \in DOMAIN calls, e \in DatabaseErrors : OpenReject(i, e)
    \/ \E i \in DOMAIN calls : QueryRead(i)
    \/ \E i \in DOMAIN calls : QueryResolve(i)
    \/ \E i \in DOMAIN calls, e \in DatabaseErrors : QueryReject(i, e)
    \/ \E i \in DOMAIN calls : CloseResolve(i)
    \/ \E i \in DOMAIN calls, e \in DatabaseErrors : CloseReject(i, e)

\* The main process from its start, with the page it loads.
StartSpec == Init /\ [][StartNext]_vars

\* initializeApp has returned: the intentions database is open, the update
\* listener registered and the store holds the documents of the first query.
Loaded ==
    /\ Started
    /\ databases = <<[address |-> Intentions, name |-> Name, type |-> "documents",
                      tried |-> FALSE]>>
    /\ instances = [address \in Addresses |->
                       IF address = Intentions
                       THEN [engine |-> 1, listeners |-> 1, tried |-> FALSE]
                       ELSE NoInstance]
    /\ subscribers = onUpdate(<<>>, Intentions)
    /\ app = [Connected EXCEPT !.intentionsDbAddress = Js("string", Intentions),
                               !.intentions = contents[Intentions],
                               !.orbitdbReady = TRUE]
    /\ calls = <<>>

\* Writes to the intentions database, their update events and the reloads
\* of the renderer's listener.
ViewNext ==
    \/ \E doc \in Written : WriteEmits(doc)
    \/ Receive
    \/ \E i \in DOMAIN calls : TakeUp(i)
    \/ \E i \in DOMAIN calls : QueryRead(i)
    \/ \E i \in DOMAIN calls : QueryResolve(i)
    \/ \E i \in DOMAIN calls, e \in DatabaseErrors : QueryReject(i, e)
    \/ \E i \in DOMAIN calls : QueryReply(i)

ViewSpec == Loaded /\ [][ViewNext]_vars

\* Calls of switchAttention on one attention log.
LogNext ==
    \/ \E intentionId \in IntentionIds : SwitchCall(intentionId)
    \/ \E i \in DOMAIN calls : CollectResolve(i)
    \/ \E i \in DOMAIN calls, error \in Errors : CollectReject(i, error)
    \/ \E i \in DOMAIN calls : AddResolve(i)
    \/ \E i \in DOMAIN calls, error \in Errors : AddReject(i, error)

LogSpec == Quiet /\ [][LogNext]_vars

----------------------------------------------------------------------------
\* Properties

\* The requests in flight and the one just completed.
InFlight(op) == {i \in DOMAIN calls : calls[i].op = op}

Replied(op) == reply.op = op /\ reply.done

\* A mutating request has touched the shared state once it is past its first
\* statement that reads or writes libp2p, helia or orbitdb: every await but
\* initializeP2P's first one comes after such a statement.
Touched(c) == c.op \in Mutating /\ c.pc # "awaitLibp2p"

\* C1: two initialize() requests in flight together create the network node
\* once and report the same identifier.
C1_OverlappingInitOneNode ==
    /\ \A i, j \in InFlight("initialize") :
          calls[i].pc = "awaitHelia" /\ calls[j].pc = "awaitHelia"
              => calls[i].loc = calls[j].loc
    /\ \A i \in InFlight("initialize") :
          /\ Replied("initialize")
          /\ reply.caught = NoError
          /\ calls[i].pc = "awaitHelia"
          => PeerIdOf(calls[i].loc) = reply.out.value.peerId

\* C2: an initialize() that arrives after one has succeeded (helia is set, and
\* no other initialize() was in flight with it) is a no-op: it creates no new
\* network node, and at most one instance of each member is ever created.
C2_ReinitIsNoOp ==
    \A i \in InFlight("initialize") :
        "initialize" \notin calls[i].met /\ helia # Null
            => calls[i].pc # "awaitHelia" /\ Len(nodes) <= 1

\* C3: the mutating operations are serialized: no two of them are past their
\* first access to the shared state at the same time.
C3_Serialized ==
    \A i, j \in DOMAIN calls :
        i # j => ~(Touched(calls[i]) /\ Touched(calls[j]))

\* The position of a member in the order shutdown() stops them in: the
\* reverse of the order initialize() and bindDatabaseEngine create them in.
StopRank(member) ==
    CASE member = "orbitdb" -> 1
      [] member = "helia" -> 2
      [] member = "libp2p" -> 3

\* Whether the instance a stop() was called on has stopped.
HasStopped(s) ==
    CASE s.member = "orbitdb" -> ~engines[s.id].running
      [] s.member = "helia" -> ~stores[s.id].running
      [] s.member = "libp2p" -> ~nodes[s.id].running

\* The stop() calls of one shutdown() come in the order engine, storage, node,
\* and each is made only after the one before it has stopped its member.
InStopOrder(stopped) ==
    \A k, l \in DOMAIN stopped :
        k < l => /\ StopRank(stopped[k].member) < StopRank(stopped[l].member)
                 /\ HasStopped(stopped[k])

\* The members a shutdown() has called stop() on.
Attempted(c) == {c.stopped[k].member : k \in DOMAIN c.stopped}

\* C4: every shutdown(), in flight or just completed, has called stop() on the
\* members in the order database engine, storage, network node, each after the
\* member before it had stopped.
C4_ShutdownOrder ==
    /\ \A i \in InFlight("shutdown") : InStopOrder(calls[i].stopped)
    /\ Replied("shutdown") => InStopOrder(reply.stopped)

\* C4 witness: a shutdown() has stopped all three members.
C4_Witness ==
    /\ Replied("shutdown")
    /\ reply.caught = NoError
    /\ Attempted(reply) = {"orbitdb", "helia", "libp2p"}

\* C5: a shutdown() in which a stop() failed has still called stop() on every
\* member that is left.
C5_ShutdownBestEffort ==
    Replied("shutdown") /\ reply.caught # NoError
        => /\ helia # Null => "helia" \in Attempted(reply)
           /\ libp2p # Null => "libp2p" \in Attempted(reply)

\* No member is set, and no instance of one is running.
AllStopped ==
    /\ libp2p = Null /\ helia = Null /\ orbitdb = Null
    /\ \A n \in DOMAIN nodes : ~nodes[n].running
    /\ \A s \in DOMAIN stores : ~stores[s].running
    /\ \A e \in DOMAIN engines : ~engines[e].running

\* C6: when an initialize() and a shutdown() that were in flight together have
\* both finished (no stop() of it having failed), nothing is left set or running.
C6_ShutdownDuringInit ==
    /\ InFlight("initialize") = {} /\ InFlight("shutdown") = {}
    /\ reply.caught = NoError
    /\ \/ Replied("initialize") /\ reply.met = {"shutdown"}
       \/ Replied("shutdown") /\ reply.met = {"initialize"}
    => AllStopped

\* The missing-on-disk condition of the claim.
MissingOnDisk(error) == error.code = "LEVEL_NOT_FOUND" \/ error.notFound = TRUE

\* C7: an initialize() whose store creation reports the missing-on-disk
\* condition returns success with identifier, addresses and storage root.
C7_FirstRunIsSuccess ==
    Replied("initialize") /\ reply.pc = "awaitHelia" /\ MissingOnDisk(reply.caught)
        => /\ ~reply.out.threw
           /\ reply.out.value.success
           /\ DOMAIN reply.out.value = {"success", "peerId", "multiaddrs", "storageDir"}
           /\ reply.out.value.peerId \in {PeerIdOf(n) : n \in DOMAIN nodes} \cup {EmptyString}
           /\ libp2p # Null => reply.out.value.peerId = PeerIdOf(libp2p)
           /\ reply.out.value.storageDir = StorageDir

\* C7 witness: createHelia rejected with the notFound flag and the call
\* returned success.
C7_Witness ==
    /\ Replied("initialize") /\ reply.pc = "awaitHelia"
    /\ reply.caught.notFound /\ reply.caught.code = ""
    /\ reply.out.value.success

\* C8: a bindDatabaseEngine made while the storage does not exist fails with
\* StorageNotReady; before any storage has been created no engine exists.
C8_BindNeedsStorage ==
    Replied("createOrbitDB") =>
        /\ reply.pc = "start" /\ helia = Null
              => reply.out = Returned(Failure("Helia not initialized. Call initializeP2P first."))
        /\ Len(stores) = 0
              => /\ ~reply.out.value.success
                 /\ orbitdb = Null /\ Len(engines) = 0

\* C8 witness: a bind was refused before initialize() had created the storage.
C8_Witness ==
    /\ Replied("createOrbitDB") /\ Len(stores) = 0
    /\ reply.arg # JsNull
    /\ ~reply.out.value.success

\* C9: a bindDatabaseEngine made while the engine is bound returns success.
C9_BindIdempotent ==
    Replied("createOrbitDB") /\ reply.pc = "start" /\ orbitdb # Null
        => reply.out = Returned(Success)

\* The request the last step completed came in over a p2p:* or orbitdb:*
\* channel.
Answered == reply.done /\ reply.via \in {"ipc", "bridge"}

\* A response that is a success payload or a structured error: an object with
\* a success flag that carries an error message exactly when the flag is false.
Structured(value) ==
    /\ "success" \in DOMAIN value
    /\ value.success \in BOOLEAN
    /\ ~value.success <=> "error" \in DOMAIN value

\* C10: every p2p:* or orbitdb:* request that has been answered got a returned
\* value, never a thrown error: the plain value of a getter, otherwise a success
\* payload or a structured error, which after a collaborator's fault carries
\* that fault's message (or the invalid-filter message); and no request in
\* flight has been answered already.
C10_OneStructuredResponse ==
    /\ \A i \in DOMAIN calls : ~calls[i].done /\ calls[i].out = Returned(Null)
    /\ Answered =>
          /\ ~reply.out.threw
          /\ reply.op \notin Getters => Structured(reply.out.value)
          /\ reply.caught # NoError /\ ~reply.out.value.success
                => reply.out.value.error \in {reply.caught.message,
                                              "Invalid filter function"}

\* C11: an address whose close has succeeded is not among the open handles
\* until an open returns it again, and a query that arrives for it meanwhile
\* is answered with the NotFound failure.
C11_ClosedIsNotFound ==
    /\ \A a \in closed : ~Has(a)
    /\ Replied("query") /\ reply.pc = "start" /\ reply.arg.address \in closed
          => reply.out = Returned(Failure(NotFoundMessage(reply.arg.address)))

\* C11 witness: a query for an address that was opened and then closed has
\* been answered with NotFound.
C11_Witness ==
    /\ Replied("query") /\ reply.arg.address \in closed
    /\ reply.out = Returned(Failure(NotFoundMessage(reply.arg.address)))

\* C12: an update emitted by the database at one address is never delivered
\* to a subscriber that watches another address only: every update a
\* subscriber's listener is called with is of the address it watches.
C12_OnlyWatchedAddress ==
    \A k \in DOMAIN subscribers :
        \A n \in DOMAIN subscribers[k].heard :
            subscribers[k].heard[n].address = subscribers[k].watch

\* The entries of the updates a subscriber has got.
EntriesGot(subscriber) == [n \in DOMAIN subscriber.got |-> subscriber.got[n].entry.id]

\* C13: no subscriber gets the same update twice.
C13_AtMostOnce ==
    \A k \in DOMAIN subscribers :
        \A m, n \in DOMAIN subscribers[k].got :
            m # n => EntriesGot(subscribers[k])[m] # EntriesGot(subscribers[k])[n]

\* C14: the updates of one database reach a subscriber in the order the
\* database emitted them in.
C14_InOrderPerDatabase ==
    \A k \in DOMAIN subscribers :
        \A m, n \in DOMAIN subscribers[k].got :
            m < n => EntriesGot(subscribers[k])[m] <= EntriesGot(subscribers[k])[n]

\* C14 witness: a subscriber has got two different updates of its database.
C14_Witness ==
    \E k \in DOMAIN subscribers :
        \E m, n \in DOMAIN subscribers[k].got :
            EntriesGot(subscribers[k])[m] < EntriesGot(subscribers[k])[n]

\* The calls made on the database at `address` that write it.
Writes(address) ==
    SelectSeq(invoked, LAMBDA call : call.address = address
                                      /\ call.op \in {"add", "put", "del"})

\* C15: the write requests for one open database reach the database in the
\* order the requests arrived in.
C15_WritesInArrivalOrder ==
    \A a \in Addresses :
        \A m, n \in DOMAIN Writes(a) :
            m < n => Writes(a)[m].n < Writes(a)[n].n

\* C15 witness: two writes of one database are in flight together, both
\* having called the database.
C15_Witness ==
    \E a \in Addresses :
        /\ Len(Writes(a)) >= 2
        /\ Cardinality({i \in DOMAIN calls : calls[i].pc = "awaitEntry"
                                             /\ calls[i].arg.address = a
                                             /\ calls[i].op \in {"add", "put", "del"}}) >= 2

\* The collaborator call that request i waits for settles and the request
\* runs on.
Settle(i) ==
    \/ InitLibp2pResolve(i) \/ InitHeliaResolve(i) \/ BindResolve(i)
    \/ DialResolve(i)
    \/ ShutdownOrbitDBStopped(i) \/ ShutdownHeliaStopped(i)
    \/ ShutdownLibp2pStopped(i)
    \/ OpenResolve(i) \/ CloseResolve(i)
    \/ QueryRead(i) \/ QueryResolve(i)
    \/ \E e \in DatabaseErrors : EntryReject(i, e)

\* C16: whatever is suspended, a further request the page sends to any
\* handler is taken up (as long as the run has requests left), and every
\* suspended request runs on as soon as its own collaborator call settles.
C16_ChannelNotBlocked ==
    /\ calls # <<>> /\ made < MaxCalls /\ shell.window
          => /\ \A op \in Getters : ENABLED GetCall(op)
             /\ ENABLED InitCall
             /\ \A id \in Identities : ENABLED BindCall(id)
             /\ \A a \in DialInputs : ENABLED DialCall(a)
             /\ \A o \in OpenInputs : ENABLED OpenCall(o)
             /\ \A a \in Addresses : ENABLED CloseCall(a) /\ ENABLED InfoCall(a)
             /\ \A a \in Addresses, f \in Filters : ENABLED QueryCall(a, f)
             /\ \A op \in EntryOps, a \in Addresses :
                    \A x \in EntryInputs(op) : ENABLED EntryCall(op, a, x)
             /\ ENABLED GetDatabasesCall
    /\ \A i \in DOMAIN calls : ENABLED Settle(i)

\* C16 witness: a getter was answered while a dial and another request were
\* suspended.
C16_Witness ==
    /\ reply.done /\ reply.op \in Getters
    /\ \E i \in DOMAIN calls : calls[i].pc = "awaitDial"
    /\ Len(calls) >= 2

\* The step answers a dial that failed: libp2p was not there, the address did
\* not parse, or libp2p.dial rejected.
DialFailedStep ==
    /\ made' = made + 1 \/ \E i \in Awaiting("awaitDial") : calls' = Remove(calls, i)
    /\ reply'.done /\ reply'.op = "dialPeer"
    /\ reply'.caught # NoError \/ reply'.pc = "start"

\* C17: a dial that fails returns the failure result with the reason, and the
\* step adds no connection: getConnections() is after it what it was before.
C17_FailedDialAddsNothing ==
    [][DialFailedStep =>
          /\ reply'.out \in {Returned(Failure("libp2p not initialized")),
                              Returned(Failure(reply'.caught.message))}
          /\ nodes' = nodes
          /\ getConnections' = getConnections]_vars

\* C17 witness: a dial failed on the identity mismatch and the peer is not
\* among the connections.
C17_Witness ==
    /\ Replied("dialPeer") /\ reply.caught.message = "identity-mismatch"
    /\ reply.out = Returned(Failure("identity-mismatch"))
    /\ libp2p # Null
    /\ reply.arg \notin {c.remotePeer : c \in getConnections}

\* The step answers a getter request.
GetterStep == made' = made + 1 /\ reply'.done /\ reply'.op \in Getters

\* C18: a getter request changes nothing of the Supervisor's or the Bridge's
\* state, and while there is no network node the three getters return null,
\* an empty list and an empty list.
C18_GettersArePureReads ==
    [][GetterStep =>
          /\ UNCHANGED <<libp2p, helia, orbitdb, nodes, stores, engines,
                         databases, contents, calls>>
          /\ ~reply'.out.threw
          /\ libp2p = Null =>
                /\ reply'.op = "getPeerId" => reply'.out.value = Null
                /\ reply'.op = "getMultiaddrs" => reply'.out.value = <<>>
                /\ reply'.op = "getConnections" => reply'.out.value = {}]_vars

\* C18 witness: getMultiaddrs was answered with the empty list before the
\* network node existed.
C18_Witness ==
    /\ reply.done /\ reply.op = "getMultiaddrs"
    /\ libp2p = Null /\ Len(nodes) = 0
    /\ reply.out = Returned(<<>>)

\* The documents a database can hold from an earlier run.
StoredBefore == UNION {{stored[k].value : k \in DOMAIN stored} : stored \in Stored}

\* The documents added to `address` with success in this run and not deleted
\* since.
Added(address) ==
    {contents[address][k].value : k \in DOMAIN contents[address]} \ StoredBefore

\* The number of places of `documents` that hold `doc`.
Occurrences(doc, documents) ==
    Cardinality({k \in DOMAIN documents : documents[k] = doc})

\* C19: on an open documents database, a get of the id of a document that was
\* added with success answers with a document equal to it field for field,
\* and a query without predicate answers with a list that holds every such
\* document exactly once.
C19_RoundTrip ==
    /\ (/\ Replied("get") /\ ~reply.out.threw /\ reply.out.value.success
        /\ \E d \in Added(reply.arg.address) : d._id = reply.arg.entry)
       => reply.out.value.document \in Added(reply.arg.address)
    /\ (/\ Replied("query") /\ ~reply.out.threw /\ reply.out.value.success
        /\ reply.arg.filter = NoFilter)
       => \A d \in Added(reply.arg.address) :
             Occurrences(d, reply.out.value.documents) = 1

\* C28: in every state the members exist in their creation order: a database
\* engine only with a storage, a storage only with a network node.
C28_CreationOrder ==
    /\ orbitdb # Null => helia # Null
    /\ helia # Null => libp2p # Null

\* C29: an initialize() that returns a failure leaves the Supervisor as it was
\* before the call: the network node the failed attempt created is neither
\* registered in libp2p (where getPeerId reads the identifier) nor running.
C29_FailedInitLeavesNothing ==
    Replied("initialize") /\ ~reply.out.threw /\ ~reply.out.value.success
        /\ reply.pc = "awaitHelia"
        => /\ libp2p # reply.loc
           /\ ~nodes[reply.loc].running

\* C30: an initialize() that returns success leaves the storage in place, so
\* that a bindDatabaseEngine after it passes the storage guard; the first-run
\* path (createHelia reports the missing-on-disk condition) included.
C30_SuccessMeansStorage ==
    Replied("initialize") /\ ~reply.out.threw /\ reply.out.value.success
        => helia # Null

\* C23: the descriptor sent to the Supervisor has the identifier and the
\* public key and no other field.
C23_DescriptorOnlyIdAndKey ==
    descriptor # JsNull => DOMAIN descriptor = {"id", "publicKey"}

\* C24: over the page loads of the app, navigator.credentials.create is
\* awaited only while no credential is persisted, and a persisted credential
\* is never replaced.
C24_IdentityCreatedOnce ==
    [][/\ \A i \in Awaiting("awaitCreate") : localStorage = JsNull
       /\ localStorage # JsNull => localStorage' = localStorage]_vars

\* C24 witness: with a credential persisted, the initializeApp of a later
\* page load has built the identity from it and gone on.
C24_Witness ==
    /\ localStorage # JsNull
    /\ made >= 2
    /\ \E i \in Awaiting("awaitInitialize") :
          calls[i].loc.credential = getWebAuthnCredential(localStorage).value

\* The bytes of the public key a credential holds: those of a buffer, a typed
\* array or an array, and none where it is null or the empty string.
KeyBytes(credential) ==
    IF credential.publicKey.kind \in {"ArrayBuffer", "Uint8Array", "Array"}
    THEN credential.publicKey.data ELSE <<>>

\* C25: the identifier depends on the public key bytes alone.  Any two
\* identities built from credentials with the same public key bytes have the
\* same identifier, whatever form the credential holds the bytes in, whatever
\* its other fields are and whenever it was built: from the credential just
\* created, from the stored one of a later page load, or from one a caller
\* has made.
C25_IdentifierFromKeyAlone ==
    \A a, b \in built :
        KeyBytes(a.credential) = KeyBytes(b.credential) => a.id = b.id

\* C25 witness: three identities have been built of the same three bytes:
\* from the credential as created, from the stored one of a later page load
\* and from one without createdAt that holds the bytes as an Array.
C25_Witness ==
    \E a, b, c \in built :
        /\ a.credential.publicKey = Js("ArrayBuffer", <<4, 200, 9>>)
        /\ b.credential.publicKey = Js("Uint8Array", <<4, 200, 9>>)
        /\ "createdAt" \in DOMAIN b.credential
        /\ c.credential.publicKey = Js("Array", <<4, 200, 9>>)
        /\ a.id = b.id /\ b.id = c.id

\* C26: identity.verify never throws: whatever it is called with, it returns
\* a boolean, and false when key import, hashing or the check itself failed.
C26_VerifyNeverThrows ==
    Replied("verify") =>
        /\ ~reply.out.threw
        /\ reply.out.value \in BOOLEAN
        /\ reply.caught # NoError => reply.out.value = FALSE

\* A step in which setupDevice fails: the initializeApp that called it ends
\* with an error before it has an identity.
SetupFailedStep ==
    /\ reply'.done /\ reply'.op = "initializeApp" /\ reply'.out.threw
    /\ reply'.pc \in {"start", "awaitCreate"}

\* C27: when setupDevice fails (no WebAuthn, the prompt is rejected, the
\* platform returns no credential) the error is reported to the caller and the
\* stored credential is what it was before.
C27_FailedCreatePersistsNothing ==
    [][SetupFailedStep =>
          /\ localStorage' = localStorage
          /\ reply'.caught.message \in {"WebAuthn not supported", "NotAllowedError",
                                         "Failed to create credential"}
          /\ reply'.out = Threw(reply'.caught)]_vars

\* C27 witness: navigator.credentials.create resolved with null, setupDevice
\* threw and nothing is stored.
C27_Witness ==
    /\ Replied("initializeApp") /\ reply.out.threw
    /\ reply.caught.message = "Failed to create credential"
    /\ localStorage = JsNull

\* C31: a bindDatabaseEngine that returns success leaves the database engine
\* bound, so that an openDatabase after it passes the engine guard; the
\* first-run path (createOrbitDB reports the missing-on-disk condition)
\* included.
C31_BindSuccessMeansEngine ==
    Replied("createOrbitDB") /\ ~reply.out.threw /\ reply.out.value.success
        => orbitdb # Null

\* The request that arrives in a step: the one the step completed, or the
\* last of those in flight.
Arrived == IF reply'.done THEN reply' ELSE calls'[Len(calls')]

\* The operations that name a database by its address, and the address a
\* request of one of them names.
Addressed == {"close", "info", "query"} \cup EntryOps

Named(c) == IF c.op \in {"close", "info"} THEN c.arg ELSE c.arg.address

\* C33: a close, get, add, put, delete, info or query that names an address
\* which is not open is answered at once with the NotFound failure: no call is
\* made on a database, and the open handles and the stored documents stay as
\* they are.
C33_NotOpenIsNotFound ==
    [][(made' = made + 1 /\ Arrived.op \in Addressed /\ ~Has(Named(Arrived)))
          => /\ Arrived.done /\ Arrived.pc = "start"
             /\ Arrived.out = Returned(Failure(NotFoundMessage(Named(Arrived))))
             /\ UNCHANGED <<databases, invoked, contents>>]_vars

\* C33 witness: a put for an address that is not open while another database
\* is open has been answered with NotFound.
C33_Witness ==
    /\ Replied("put") /\ ~Has(reply.arg.address) /\ databases # <<>>
    /\ reply.out = Returned(Failure(NotFoundMessage(reply.arg.address)))

\* C34: a query only reads: the step that completes a queryDocuments request
\* leaves the open handles, the stored documents and the Supervisor's three
\* members as they were, whatever filterFn the renderer sent.
C34_QueryIsReadOnly ==
    [][(reply'.done /\ reply'.op = "query")
          => UNCHANGED <<databases, contents, libp2p, helia, orbitdb>>]_vars

\* The addresses that have an open handle.
Handles == {databases[k].address : k \in DOMAIN databases}

\* Handler run c of before-quit is inside the loop of closeAllDatabases.
Sweeping(c) == c.op = "quit" /\ ~c.done /\ c.pc = "awaitDbClose"

\* A step in which before-quit fires, and the handler run it has started.
QuitArrives ==
    /\ made' = made + 1
    /\ \/ Len(calls') = Len(calls) + 1 /\ calls'[Len(calls')].op = "quit"
       \/ Len(calls') = Len(calls) /\ reply'.done /\ reply'.op = "quit"
QuitArrived == IF Len(calls') > Len(calls) THEN calls'[Len(calls')] ELSE reply'

\* A step in which the close() that handler run i awaits in the loop has
\* settled, and the run after it.
CloseSettles(i) ==
    /\ Sweeping(calls[i])
    /\ Len(calls') = Len(calls)
    /\ calls'[i].stopped # calls[i].stopped \/ ~Sweeping(calls'[i])
QuitAfter(i) == calls'[i]

\* A step in which closeAllDatabases returns.
CloseAllReturns ==
    \/ QuitArrives /\ ~Sweeping(QuitArrived)
    \/ \E i \in DOMAIN calls : CloseSettles(i) /\ ~Sweeping(QuitAfter(i))

\* C32: the open handles change only when an openDatabase returns success (its
\* address is added), when a closeDatabase returns success (its address is
\* removed) and when closeAllDatabases returns (none is left); the map has one
\* entry per address, and listOpenDatabases returns exactly these entries.
C32_HandlesAreTheOpenOnes ==
    [][/\ Handles' =
            CASE reply'.done /\ reply'.op = "open" /\ reply'.out.value.success
                    -> Handles \cup {reply'.out.value.address}
              [] reply'.done /\ reply'.op = "close" /\ reply'.out.value.success
                    -> Handles \ {reply'.arg}
              [] CloseAllReturns -> {}
              [] OTHER -> Handles
       /\ Len(databases') = Cardinality(Handles')
       /\ (reply'.done /\ reply'.op = "getDatabases")
             => /\ reply'.out.value.success
                /\ reply'.out.value.databases =
                       [k \in DOMAIN databases' |-> Describe(databases'[k])]]_vars

\* C32 witness: the same database has been opened twice and listOpenDatabases
\* has returned one entry.
C32_Witness ==
    /\ Replied("getDatabases") /\ Len(reply.out.value.databases) = 1
    /\ instances[databases[1].address].listeners = 2

\* The databases handler run c has called close() on, by address.
ClosedBy(c) == {c.stopped[k].id : k \in {l \in DOMAIN c.stopped : c.stopped[l].member = "db"}}

\* C35: closeAllDatabases calls close() on every entry of the map: when a
\* close has settled, resolved or rejected, it goes on to the next entry if
\* there is one; it returns only when no entry is left that it has not been
\* at, and the map is empty when it returns.
C35_CloseAllClosesAll ==
    [][/\ \A i \in DOMAIN calls :
             CloseSettles(i) =>
                IF HasNext(calls[i], databases)
                THEN /\ Sweeping(QuitAfter(i))
                     /\ QuitAfter(i).stopped =
                            Append(calls[i].stopped,
                                   [member |-> "db",
                                    id |-> databases[NextEntry(calls[i], databases)].address])
                     /\ databases'[NextEntry(calls[i], databases)].tried
                ELSE /\ ~Sweeping(QuitAfter(i))
                     /\ Handles \subseteq ClosedBy(calls[i])
       /\ CloseAllReturns => databases' = <<>>]_vars

\* C35 witness: a close has failed and closeAllDatabases is closing the next
\* database.
C35_Witness ==
    \E i \in InFlight("quit") :
        /\ calls[i].pc = "awaitDbClose"
        /\ calls[i].caught \in DatabaseErrors
        /\ Len(calls[i].stopped) = 2

\* C36: every handle closeAllDatabases drops from the map when it returns is
\* one it has called close() on, also when an openDatabase has completed
\* while it was waiting for a close.
C36_NoHandleDroppedUnclosed ==
    [][CloseAllReturns => \A k \in DOMAIN databases : databases[k].tried]_vars

\* The close() and stop() calls of the before-quit handler come in the order
\* databases, engine, storage, node.
InQuitOrder(stopped) ==
    \A k, l \in DOMAIN stopped :
        (k < l /\ stopped[l].member = "db") => stopped[k].member = "db"

\* C37: when the process exits the teardown has run in order and to its end:
\* the databases were closed first and none is left open, and stop() has been
\* called on the engine, the storage and the network node, also when a close
\* or a stop has failed.
C37_QuitTearsDownInOrder ==
    Exited
        => /\ InQuitOrder(reply.stopped)
           /\ databases = <<>>
           /\ orbitdb # Null => "orbitdb" \in Attempted(reply)
           /\ helia # Null => "helia" \in Attempted(reply)
           /\ libp2p # Null => "libp2p" \in Attempted(reply)

\* C38: no database request of the renderer finds its channel without a
\* handler: the openDatabase and the query of initializeApp are never
\* rejected for a missing handler, however window creation, the timer that
\* registers the handlers and the renderer's start-up interleave.
C38_HandlersBeforeRequests ==
    ~(/\ Replied("initializeApp")
      /\ reply.caught \in {NoHandlerError("orbitdb:open"), NoHandlerError("orbitdb:query")})

\* Every update event has been handled: none is on its way to the renderer and
\* no reload of the listener is in flight.
Handled == channel = <<>> /\ calls = <<>>

\* C39: once the update events have been handled the intentions store holds
\* the documents of the database, also when the reloads of several events
\* have overlapped.
C39_ViewConverges ==
    Handled => app.intentions = contents[Intentions]


\* C40: the events of the attention log carry the indices 0, 1, 2, ... in the
\* order of the log, each the number of entries before it, also when calls of
\* switchAttention overlap.
C40_IndicesCountTheLog ==
    \A k \in DOMAIN attentionLog : attentionLog[k].index = k - 1
====
